---- MODULE Spec2Model ----
(***************************************************************************)
(* duckcross-api: the transit route finder (src/src/transit-route-finder.ts) *)
(* A TransitRouteFinder instance is built from a schedule snapshot by the   *)
(* three ingestion methods and then searched by findPaths.  Strings the     *)
(* code inspects character by character (stop ids, arrival times, station   *)
(* names) are sequences of one-character strings; ordered JavaScript Maps   *)
(* and Sets whose iteration order the code depends on are sequences in      *)
(* insertion order.                                                         *)
(***************************************************************************)
EXTENDS Integers, Sequences, FiniteSets, TLC

VARIABLES
    db,               \* the snapshot the data source returns: stops, stopTimes, transfers
    request,          \* the caller's arguments
    script,           \* the caller's sequence of method calls
    pc,               \* index in script of the next call
    stopsByLine,      \* trip_id -> set of stop ids
    stopConnections,  \* ordered: stop id -> ordered set of directly connected stop ids
    stationNames,     \* stop id -> name
    transferOptions,  \* (from, to) -> minutes
    stopTimesMap,     \* (trip_id, "a-b") -> minutes
    directLines,      \* sequence of DirectLine
    fp,               \* position inside findPaths
    oi,               \* findPaths: index of the current origin
    di,               \* findPaths: index of the current destination
    results,          \* findPaths: results collected so far, each with its pair
    queue,            \* findShortestPath: FIFO queue of candidates
    visited,          \* findShortestPath: stops already expanded
    bestPath,         \* findShortestPath: <<>> (null) or <<PathResult>>
    searched,         \* findPaths: the pairs findShortestPath was called for, in order
    event,            \* findShortestPath: what the last loop iteration did
    returned,         \* value returned by the last completed call
    tasks,            \* the asynchronous executions of the request handlers and of findRoutes
    heap,             \* the TransitRouteFinder instances created with new
    reads,            \* the bulk reads each task issued to the data source, in order
    users,            \* the rows of the User table
    now               \* the clock, in seconds

vars == <<db, request, script, pc, stopsByLine, stopConnections, stationNames,
          transferOptions, stopTimesMap, directLines, fp, oi, di, results,
          queue, visited, bestPath, searched, event, returned, tasks, heap, reads,
          users, now>>

serverVars == <<tasks, heap, reads>>

authVars == <<users, now>>

finderVars == <<stopsByLine, stopConnections, stationNames, transferOptions,
                stopTimesMap, directLines>>

searchVars == <<fp, oi, di, results, queue, visited, bestPath, searched, event>>

(***************************************************************************)
(* JavaScript values                                                       *)
(***************************************************************************)
\* null for a string-valued field (lastTrip, parent_stop_id, min_transfer_time).
NULL == "<null>"

\* not-a-number, as an integer no computation of the model reaches otherwise.
NaN == 0 - 1000000000

Range(s) == {s[i] : i \in 1..Len(s)}

Min(a, b) == IF a < b THEN a ELSE b

Max(a, b) == IF a > b THEN a ELSE b

Abs(a) == IF a < 0 THEN 0 - a ELSE a

JsAdd(a, b) == IF a = NaN \/ b = NaN THEN NaN ELSE a + b

JsSub(a, b) == IF a = NaN \/ b = NaN THEN NaN ELSE a - b

JsMul(a, b) == IF a = NaN \/ b = NaN THEN NaN ELSE a * b

\* Math.round(x / d) for an integer x and d > 0: halves round towards +infinity.
MathRoundDiv(x, d) == IF x = NaN THEN NaN ELSE (2 * x + d) \div (2 * d)

\* A string is falsy when it is null or empty.
Falsy(s) == s = NULL \/ s = ""

DigitChars == <<"0", "1", "2", "3", "4", "5", "6", "7", "8", "9">>

IsDigit(c) == \E i \in 1..10 : DigitChars[i] = c

DigitVal(c) == (CHOOSE i \in 1..10 : DigitChars[i] = c) - 1

IsSpace(c) == c = " " \/ c = "\t"

RECURSIVE TrimLeft(_)
TrimLeft(cs) ==
    IF cs # <<>> /\ IsSpace(Head(cs)) THEN TrimLeft(Tail(cs)) ELSE cs

RECURSIVE TrimRight(_)
TrimRight(cs) ==
    IF cs # <<>> /\ IsSpace(cs[Len(cs)])
    THEN TrimRight(SubSeq(cs, 1, Len(cs) - 1))
    ELSE cs

Trim(cs) == TrimRight(TrimLeft(cs))

RECURSIVE DecimalValue(_)
DecimalValue(cs) ==
    IF cs = <<>> THEN 0
    ELSE 10 * DecimalValue(SubSeq(cs, 1, Len(cs) - 1)) + DigitVal(cs[Len(cs)])

\* Number(string) on strings of digits, blanks and other characters: surrounding
\* blanks are dropped, the empty string is 0, a run of digits is its decimal value,
\* anything else is NaN.
JsNumber(cs) ==
    LET t == Trim(cs)
    IN  IF \A i \in 1..Len(t) : IsDigit(t[i]) THEN DecimalValue(t) ELSE NaN

\* String.prototype.split(sep) for a one-character separator.
RECURSIVE Split(_, _)
Split(cs, sep) ==
    IF \A i \in 1..Len(cs) : cs[i] # sep THEN <<cs>>
    ELSE LET k == CHOOSE i \in 1..Len(cs) :
                     cs[i] = sep /\ \A j \in 1..(i - 1) : cs[j] # sep
         IN  <<SubSeq(cs, 1, k - 1)>> \o Split(SubSeq(cs, k + 1, Len(cs)), sep)

(***************************************************************************)
(* getTimeDifference                                                       *)
(***************************************************************************)
\* const [h, m, s = '0'] = time.split(':').map(Number); h*3600 + m*60 + Number(s)
parseTime(time) ==
    LET parts == Split(time, ":")
        h == JsNumber(parts[1])
        m == IF Len(parts) >= 2 THEN JsNumber(parts[2]) ELSE NaN
        s == IF Len(parts) >= 3 THEN JsNumber(parts[3]) ELSE 0
    IN  JsAdd(JsAdd(JsMul(h, 3600), JsMul(m, 60)), s)

getTimeDifferenceNoWrap(time1, time2) ==
    MathRoundDiv(JsSub(parseTime(time2), parseTime(time1)), 60)

getTimeDifferenceTruncate(time1, time2) ==
    LET d0 == JsSub(parseTime(time2), parseTime(time1))
        d1 == IF d0 # NaN /\ d0 < 0 THEN d0 + 24 * 3600 ELSE d0
    IN  IF d1 = NaN THEN NaN ELSE d1 \div 60

getTimeDifference(time1, time2) ==
    LET seconds1 == parseTime(time1)
        seconds2 == parseTime(time2)
        d0 == JsSub(seconds2, seconds1)
        timeDiff == IF d0 # NaN /\ d0 < 0 THEN d0 + 24 * 3600 ELSE d0
    IN  MathRoundDiv(timeDiff, 60)

\* stationId.replace(/[NS]$/, '')
getBaseStationId(stationId) ==
    IF stationId # <<>> /\ stationId[Len(stationId)] \in {"N", "S"}
    THEN SubSeq(stationId, 1, Len(stationId) - 1)
    ELSE stationId

(***************************************************************************)
(* Ordered Map<string, Set<string>> (stopConnections)                      *)
(***************************************************************************)
HasKey(m, k) == \E i \in 1..Len(m) : m[i].key = k

Keys(m) == [i \in 1..Len(m) |-> m[i].key]

Conns(m, k) ==
    IF HasKey(m, k)
    THEN (m[CHOOSE i \in 1..Len(m) : m[i].key = k]).conns
    ELSE <<>>

SetAdd(s, v) == IF v \in Range(s) THEN s ELSE Append(s, v)

EnsureKey(m, k) == IF HasKey(m, k) THEN m ELSE Append(m, [key |-> k, conns |-> <<>>])

AddConn(m, k, v) ==
    LET e == EnsureKey(m, k)
    IN  [i \in 1..Len(e) |->
            IF e[i].key = k THEN [e[i] EXCEPT !.conns = SetAdd(@, v)] ELSE e[i]]

\* The edges of the adjacency index as a set of pairs.
Edges(m) == UNION {{<<m[i].key, c>> : c \in Range(m[i].conns)} : i \in 1..Len(m)}

\* `${a}-${b}`
PairKey(a, b) == a \o <<"-">> \o b

(***************************************************************************)
(* processStopTimes                                                        *)
(***************************************************************************)
\* Group the rows by trip_id; Map iteration order is the order of first appearance.
RECURSIVE GroupByTrip(_, _)
GroupByTrip(rows, acc) ==
    IF rows = <<>> THEN acc
    ELSE LET r == Head(rows)
             has == \E i \in 1..Len(acc) : acc[i].trip_id = r.trip_id
             nxt == IF has
                    THEN [i \in 1..Len(acc) |->
                            IF acc[i].trip_id = r.trip_id
                            THEN [acc[i] EXCEPT !.stops = Append(@, r)]
                            ELSE acc[i]]
                    ELSE Append(acc, [trip_id |-> r.trip_id, stops |-> <<r>>])
         IN  GroupByTrip(Tail(rows), nxt)

\* Insert r after every element whose stop_sequence is <= r's: a stable sort.
RECURSIVE InsertBySequence(_, _)
InsertBySequence(sorted, r) ==
    IF sorted = <<>> THEN <<r>>
    ELSE IF Head(sorted).stop_sequence <= r.stop_sequence
         THEN <<Head(sorted)>> \o InsertBySequence(Tail(sorted), r)
         ELSE <<r>> \o sorted

SortBySequenceDropped(rows) == rows

\* stops.sort((a, b) => a.stop_sequence - b.stop_sequence)
RECURSIVE SortBySequence(_)
SortBySequence(rows) ==
    IF rows = <<>> THEN <<>>
    ELSE InsertBySequence(SortBySequence(SubSeq(rows, 1, Len(rows) - 1)), rows[Len(rows)])

\* The loop body of lines 99-126 for index i of one trip; st carries the instance
\* fields and the DirectLine under construction.
TripStopStep(st, tripId, sortedStops, i) ==
    LET cur == sortedStops[i].stop_id
        byLine == (tripId :> (st.stopsByLine[tripId] \cup {cur})) @@ st.stopsByLine
        conn0 == EnsureKey(st.stopConnections, cur)
    IN  IF i < Len(sortedStops)
        THEN LET nxt == sortedStops[i + 1].stop_id
                 timeDiff == getTimeDifference(sortedStops[i].arrival_time,
                                               sortedStops[i + 1].arrival_time)
                 key == PairKey(cur, nxt)
             IN  [st EXCEPT !.stopsByLine = byLine,
                            !.stopConnections = AddConn(conn0, cur, nxt),
                            !.line.travelTimes = (key :> timeDiff) @@ @,
                            !.stopTimesMap = (<<tripId, key>> :> timeDiff) @@ @]
        ELSE [st EXCEPT !.stopsByLine = byLine, !.stopConnections = conn0]

RECURSIVE TripStopLoop(_, _, _, _)
TripStopLoop(st, tripId, sortedStops, i) ==
    IF i > Len(sortedStops) THEN st
    ELSE TripStopLoop(TripStopStep(st, tripId, sortedStops, i), tripId, sortedStops, i + 1)

\* Lines 82-129 for one trip.
ProcessTrip(st, group) ==
    LET sortedStops == SortBySequence(group.stops)
        directLine == [trip_id |-> group.trip_id,
                       stops |-> [i \in 1..Len(sortedStops) |-> sortedStops[i].stop_id],
                       travelTimes |-> <<>>]
        st0 == [st EXCEPT !.line = directLine,
                          !.stopsByLine = IF group.trip_id \in DOMAIN @ THEN @
                                          ELSE (group.trip_id :> {}) @@ @]
        st1 == TripStopLoop(st0, group.trip_id, sortedStops, 1)
    IN  [st1 EXCEPT !.directLines = Append(@, st1.line)]

RECURSIVE ProcessTrips(_, _)
ProcessTrips(st, groups) ==
    IF groups = <<>> THEN st ELSE ProcessTrips(ProcessTrip(st, Head(groups)), Tail(groups))

StopTimesIngestedAfresh(st, rows) ==
    ProcessTrips([st EXCEPT !.stopConnections = <<>>], GroupByTrip(rows, <<>>))

\* The instance after processStopTimes() has read rows.
StopTimesIngested(st, rows) == ProcessTrips(st, GroupByTrip(rows, <<>>))

(***************************************************************************)
(* processTransfers, processVariantTransfers, processStops                 *)
(***************************************************************************)
DefaultTransferMinutes == 5

VariantTransferMinutes == 2

\* min_transfer_time != null ? Math.round(min_transfer_time / 60) : 5
\* (min_transfer_time is <<>> for null and <<seconds>> otherwise)
TransferTimeOf(transfer) ==
    IF transfer.min_transfer_time # <<>>
    THEN MathRoundDiv(transfer.min_transfer_time[1], 60)
    ELSE DefaultTransferMinutes

\* Lines 141-161: one transfer row.
TransferRowStep(st, transfer) ==
    LET fromId == transfer.from_stop_id
        toId == transfer.to_stop_id
    IN  [st EXCEPT !.transferOptions = (<<fromId, toId>> :> TransferTimeOf(transfer)) @@ @,
                   !.stopConnections = AddConn(@, fromId, toId)]

RECURSIVE TransferRows(_, _)
TransferRows(st, rows) ==
    IF rows = <<>> THEN st ELSE TransferRows(TransferRowStep(st, Head(rows)), Tail(rows))

\* Lines 172-180: the keys of stopConnections grouped by base station id, groups
\* and members in insertion order.
RECURSIVE GroupVariants(_, _)
GroupVariants(keys, acc) ==
    IF keys = <<>> THEN acc
    ELSE LET k == Head(keys)
             b == getBaseStationId(k)
             has == \E i \in 1..Len(acc) : acc[i].base = b
             nxt == IF has
                    THEN [i \in 1..Len(acc) |->
                            IF acc[i].base = b
                            THEN [acc[i] EXCEPT !.variants = SetAdd(@, k)]
                            ELSE acc[i]]
                    ELSE Append(acc, [base |-> b, variants |-> <<k>>])
         IN  GroupVariants(Tail(keys), nxt)

\* Lines 187-205: the double loop over one group's variants, (i, j) in row-major order.
RECURSIVE VariantPairs(_, _, _, _)
VariantPairs(st, variantArray, i, j) ==
    IF i > Len(variantArray) THEN st
    ELSE IF j > Len(variantArray) THEN VariantPairs(st, variantArray, i + 1, 1)
    ELSE IF i = j THEN VariantPairs(st, variantArray, i, j + 1)
    ELSE LET fromId == variantArray[i]
             toId == variantArray[j]
             st1 == [st EXCEPT
                       !.transferOptions = (<<fromId, toId>> :> VariantTransferMinutes) @@ @,
                       !.stopConnections = AddConn(@, fromId, toId)]
         IN  VariantPairs(st1, variantArray, i, j + 1)

RECURSIVE VariantGroups(_, _)
VariantGroups(st, groups) ==
    IF groups = <<>> THEN st
    ELSE LET g == Head(groups)
             st1 == IF Len(g.variants) > 1 THEN VariantPairs(st, g.variants, 1, 1) ELSE st
         IN  VariantGroups(st1, Tail(groups))

processVariantTransfersKeepExisting(st) ==
    LET st1 == VariantGroups(st, GroupVariants(Keys(st.stopConnections), <<>>))
    IN  [st1 EXCEPT !.transferOptions = st.transferOptions @@ @]

processVariantTransfers(st) ==
    VariantGroups(st, GroupVariants(Keys(st.stopConnections), <<>>))

TransfersIngestedRowsOnly(st, rows) == TransferRows(st, rows)

\* The instance after processTransfers() has read rows.
TransfersIngested(st, rows) == processVariantTransfers(TransferRows(st, rows))

\* Lines 219-221: stationNames.set(stop.id, stop.name) for each row.
RECURSIVE StopsIngested(_, _)
StopsIngested(names, rows) ==
    IF rows = <<>> THEN names
    ELSE StopsIngested((Head(rows).id :> Head(rows).name) @@ names, Tail(rows))

\* The instance fields as one record, and back.
Finder ==
    [stopsByLine |-> stopsByLine, stopConnections |-> stopConnections,
     transferOptions |-> transferOptions, stopTimesMap |-> stopTimesMap,
     directLines |-> directLines, line |-> <<>>]

(***************************************************************************)
(* The ingestion methods as actions; the caller's script says which method *)
(* is called next.                                                         *)
(***************************************************************************)
Calling(method) == pc <= Len(script) /\ script[pc] = method

processStops ==
    /\ Calling("processStops")
    /\ stationNames' = StopsIngested(stationNames, db.stops)
    /\ returned' = db.stops
    /\ pc' = pc + 1
    /\ UNCHANGED <<db, authVars, serverVars, request, script, stopsByLine, stopConnections, transferOptions,
                   stopTimesMap, directLines, searchVars>>

processStopTimes ==
    /\ Calling("processStopTimes")
    /\ LET st == StopTimesIngested(Finder, db.stopTimes)
       IN  /\ stopsByLine' = st.stopsByLine
           /\ stopConnections' = st.stopConnections
           /\ stopTimesMap' = st.stopTimesMap
           /\ directLines' = st.directLines
    /\ returned' = <<>>
    /\ pc' = pc + 1
    /\ UNCHANGED <<db, authVars, serverVars, request, script, stationNames, transferOptions, searchVars>>

processTransfers ==
    /\ Calling("processTransfers")
    /\ LET st == TransfersIngested(Finder, db.transfers)
       IN  /\ transferOptions' = st.transferOptions
           /\ stopConnections' = st.stopConnections
    /\ returned' = <<>>
    /\ pc' = pc + 1
    /\ UNCHANGED <<db, authVars, serverVars, request, script, stopsByLine, stationNames, stopTimesMap,
                   directLines, searchVars>>

(***************************************************************************)
(* findShortestPath                                                        *)
(***************************************************************************)
DefaultLineMinutes == 3

\* Array.prototype.indexOf, 1-based; 0 when absent.
IndexOf(seq, x) ==
    IF x \in Range(seq) THEN CHOOSE i \in 1..Len(seq) : seq[i] = x /\ \A j \in 1..(i - 1) : seq[j] # x
    ELSE 0

LastIndexOf(seq, x) ==
    IF x \in Range(seq) THEN CHOOSE i \in 1..Len(seq) : seq[i] = x /\ \A j \in (i + 1)..Len(seq) : seq[j] # x
    ELSE 0

\* Line 342: the stops are adjacent on this line.
AdjacentOnLine(line, cur, nxt) ==
    LET stopIndex == IndexOf(line.stops, cur)
        nextStopIndex == IndexOf(line.stops, nxt)
    IN  stopIndex # 0 /\ nextStopIndex # 0 /\ Abs(stopIndex - nextStopIndex) = 1

\* Lines 346-356: the travel time of (cur, nxt) on the line.
LineTravelTime(line, cur, nxt) ==
    LET timeKey == PairKey(cur, nxt)
        reverseTimeKey == PairKey(nxt, cur)
    IN  IF timeKey \in DOMAIN line.travelTimes THEN line.travelTimes[timeKey]
        ELSE IF reverseTimeKey \in DOMAIN line.travelTimes THEN line.travelTimes[reverseTimeKey]
        ELSE DefaultLineMinutes

\* Lines 337-360: the first direct line, in ingestion order, on which cur and nxt are
\* adjacent; tripId stays null when there is none.
ClassifyOnLines(lines, cur, nxt) ==
    IF \E k \in 1..Len(lines) : AdjacentOnLine(lines[k], cur, nxt)
    THEN LET k == CHOOSE k \in 1..Len(lines) :
                     /\ AdjacentOnLine(lines[k], cur, nxt)
                     /\ \A l \in 1..(k - 1) : ~AdjacentOnLine(lines[l], cur, nxt)
         IN  [tripId |-> lines[k].trip_id, transferTime |-> LineTravelTime(lines[k], cur, nxt)]
    ELSE [tripId |-> NULL, transferTime |-> 0]

PushedCandidateCountingTrips(current, nextStop, tripId, isTransfer, transferTime) ==
    LET counted == current.lastTrip # tripId
    IN  [stop |-> nextStop,
         path |-> Append(current.path, nextStop),
         time |-> JsAdd(current.time, transferTime),
         transfers |-> current.transfers + (IF counted THEN 1 ELSE 0),
         transferPoints |-> IF counted THEN Append(current.transferPoints, current.stop)
                            ELSE current.transferPoints,
         lastTrip |-> IF ~Falsy(tripId) THEN tripId ELSE current.lastTrip]

\* Lines 388-395: the candidate pushed at the end of the loop body.
PushedCandidate(current, nextStop, tripId, isTransfer, transferTime) ==
    LET counted == isTransfer /\ current.lastTrip # tripId /\ current.lastTrip # NULL
    IN  [stop |-> nextStop,
         path |-> Append(current.path, nextStop),
         time |-> JsAdd(current.time, transferTime),
         transfers |-> current.transfers + (IF counted THEN 1 ELSE 0),
         transferPoints |-> IF counted THEN Append(current.transferPoints, current.stop)
                            ELSE current.transferPoints,
         lastTrip |-> IF ~Falsy(tripId) THEN tripId ELSE current.lastTrip]

EdgePushNextStop(fd, current, nextStop) ==
    IF nextStop \in Range(current.path) THEN <<>>
    ELSE LET c == ClassifyOnLines(fd.directLines, current.stop, nextStop)
         IN  IF Falsy(c.tripId)
             THEN IF <<current.stop, nextStop>> \in DOMAIN fd.transferOptions
                  THEN LET transferTime == fd.transferOptions[<<current.stop, nextStop>>]
                       IN  IF ~Falsy(current.lastTrip)
                           THEN <<[stop |-> nextStop,
                                   path |-> Append(current.path, nextStop),
                                   time |-> JsAdd(current.time, transferTime),
                                   transfers |-> current.transfers + 1,
                                   transferPoints |-> Append(current.transferPoints, nextStop),
                                   lastTrip |-> NULL]>>
                           ELSE <<PushedCandidate(current, nextStop, c.tripId, TRUE, transferTime)>>
                  ELSE <<>>
             ELSE <<PushedCandidate(current, nextStop, c.tripId, FALSE, c.transferTime)>>

EdgePushRevisiting(fd, current, nextStop) ==
    LET c == ClassifyOnLines(fd.directLines, current.stop, nextStop)
    IN  IF Falsy(c.tripId)
        THEN IF <<current.stop, nextStop>> \in DOMAIN fd.transferOptions
             THEN <<PushedCandidate(current, nextStop, c.tripId, TRUE,
                                    fd.transferOptions[<<current.stop, nextStop>>])>>
             ELSE <<>>
        ELSE <<PushedCandidate(current, nextStop, c.tripId, FALSE, c.transferTime)>>

\* Lines 326-395: what one connection of the current stop adds to the queue.
EdgePush(fd, current, nextStop) ==
    IF nextStop \in Range(current.path) THEN <<>>
    ELSE LET c == ClassifyOnLines(fd.directLines, current.stop, nextStop)
         IN  IF Falsy(c.tripId)
             THEN IF <<current.stop, nextStop>> \in DOMAIN fd.transferOptions
                  THEN LET transferTime == fd.transferOptions[<<current.stop, nextStop>>]
                       IN  IF ~Falsy(current.lastTrip)
                           THEN <<[stop |-> nextStop,
                                   path |-> Append(current.path, nextStop),
                                   time |-> JsAdd(current.time, transferTime),
                                   transfers |-> current.transfers + 1,
                                   transferPoints |-> Append(current.transferPoints, current.stop),
                                   lastTrip |-> NULL]>>
                           ELSE <<PushedCandidate(current, nextStop, c.tripId, TRUE, transferTime)>>
                  ELSE <<>>
             ELSE <<PushedCandidate(current, nextStop, c.tripId, FALSE, c.transferTime)>>

RECURSIVE ExpandConnections(_, _, _)
ExpandConnections(fd, current, connections) ==
    IF connections = <<>> THEN <<>>
    ELSE EdgePush(fd, current, Head(connections))
         \o ExpandConnections(fd, current, Tail(connections))

PrunedOnceFound(best, current) == best # <<>>

\* Line 298: bestPath && current.time > bestPath.totalTime * 1.5
Pruned(best, current) ==
    /\ best # <<>>
    /\ current.time # NaN
    /\ best[1].totalTime # NaN
    /\ 2 * current.time > 3 * best[1].totalTime

PathResultOfWithDwell(current) ==
    [path |-> current.path, totalTime |-> JsAdd(current.time, Len(current.path) - 1),
     transfers |-> current.transfers, transferPoints |-> current.transferPoints]

PathResultOf(current) ==
    [path |-> current.path, totalTime |-> current.time,
     transfers |-> current.transfers, transferPoints |-> current.transferPoints]

\* Lines 282-289.
StartCandidate(start) ==
    [stop |-> start, path |-> <<start>>, time |-> 0, transfers |-> 0,
     transferPoints |-> <<>>, lastTrip |-> NULL]

SearchIterationDeadEnd(fd, s, end) ==
    LET current == Head(s.queue)
        rest == Tail(s.queue)
    IN  IF Pruned(s.bestPath, current)
        THEN [queue |-> rest, visited |-> s.visited, bestPath |-> s.bestPath,
              event |-> [kind |-> "pruned", candidate |-> current]]
        ELSE IF current.stop = end \/ Conns(fd.stopConnections, current.stop) = <<>>
        THEN [queue |-> rest, visited |-> s.visited, bestPath |-> <<PathResultOf(current)>>,
              event |-> [kind |-> "recorded", candidate |-> current]]
        ELSE IF current.stop \in s.visited
        THEN [queue |-> rest, visited |-> s.visited, bestPath |-> s.bestPath,
              event |-> [kind |-> "skipped", candidate |-> current]]
        ELSE [queue |-> rest \o ExpandConnections(fd, current,
                                                  Conns(fd.stopConnections, current.stop)),
              visited |-> s.visited \cup {current.stop},
              bestPath |-> s.bestPath,
              event |-> [kind |-> "expanded", candidate |-> current]]

SearchIterationRevisiting(fd, s, end) ==
    LET current == Head(s.queue)
        rest == Tail(s.queue)
    IN  IF Pruned(s.bestPath, current)
        THEN [queue |-> rest, visited |-> s.visited, bestPath |-> s.bestPath,
              event |-> [kind |-> "pruned", candidate |-> current]]
        ELSE IF current.stop = end
        THEN [queue |-> rest, visited |-> s.visited, bestPath |-> <<PathResultOf(current)>>,
              event |-> [kind |-> "recorded", candidate |-> current]]
        ELSE [queue |-> rest \o ExpandConnections(fd, current,
                                                  Conns(fd.stopConnections, current.stop)),
              visited |-> s.visited \cup {current.stop},
              bestPath |-> s.bestPath,
              event |-> [kind |-> "expanded", candidate |-> current]]

\* Lines 294-397: one iteration of the while loop on the search state
\* s = [queue, visited, bestPath].
SearchIteration(fd, s, end) ==
    LET current == Head(s.queue)
        rest == Tail(s.queue)
    IN  IF Pruned(s.bestPath, current)
        THEN [queue |-> rest, visited |-> s.visited, bestPath |-> s.bestPath,
              event |-> [kind |-> "pruned", candidate |-> current]]
        ELSE IF current.stop = end
        THEN [queue |-> rest, visited |-> s.visited, bestPath |-> <<PathResultOf(current)>>,
              event |-> [kind |-> "recorded", candidate |-> current]]
        ELSE IF current.stop \in s.visited
        THEN [queue |-> rest, visited |-> s.visited, bestPath |-> s.bestPath,
              event |-> [kind |-> "skipped", candidate |-> current]]
        ELSE [queue |-> rest \o ExpandConnections(fd, current,
                                                  Conns(fd.stopConnections, current.stop)),
              visited |-> s.visited \cup {current.stop},
              bestPath |-> s.bestPath,
              event |-> [kind |-> "expanded", candidate |-> current]]

RECURSIVE RunSearch(_, _, _)
RunSearch(fd, s, end) ==
    IF s.queue = <<>> THEN s.bestPath ELSE RunSearch(fd, SearchIteration(fd, s, end), end)

\* findShortestPath(start, end) as a value: <<>> for null, <<PathResult>> otherwise.
findShortestPath(fd, start, end) ==
    IF ~HasKey(fd.stopConnections, start) THEN <<>>
    ELSE RunSearch(fd, [queue |-> <<StartCandidate(start)>>, visited |-> {},
                        bestPath |-> <<>>], end)

(***************************************************************************)
(* Inputs: bounded schedule snapshots and requests                         *)
(***************************************************************************)
MaxTripLen == 3

MaxRows == 4

MaxTransferRows == 1

MaxIds == 2

MaxPaths == 2

StopIds == {<<"1", "N">>, <<"1", "S">>, <<"2">>, <<"3">>}

SeqsUpTo(S, n) == UNION {[1..k -> S] : k \in 0..n}

SeqsBetween(S, lo, hi) == UNION {[1..k -> S] : k \in lo..hi}

Reverse(seq) == [i \in 1..Len(seq) |-> seq[Len(seq) + 1 - i]]

Pad2(n) == <<DigitChars[(n \div 10) + 1], DigitChars[(n % 10) + 1]>>

\* "HH:MM:SS"
Hms(h, m, sec) == Pad2(h) \o <<":">> \o Pad2(m) \o <<":">> \o Pad2(sec)

\* "H:M", without padding and without seconds
Hm(h, m) == <<DigitChars[h + 1]>> \o <<":">> \o <<DigitChars[m + 1]>>

\* Arrival times of the successive stops of a trip: a morning trip, a trip over
\* midnight whose clock restarts at 0, a trip whose schedule writes one day's
\* hours over 23 and the next stop's from 0, and a trip with times that are not
\* "H:M[:S]": "8", "08:xx" and "".
Profiles ==
    [morning  |-> <<Hms(8, 0, 0), Hms(8, 5, 0), Hms(8, 12, 0), Hms(8, 20, 0), Hms(8, 21, 0)>>,
     midnight |-> <<Hms(23, 58, 0), Hms(0, 2, 0), Hms(0, 2, 29), Hm(0, 3), Hms(0, 4, 30)>>,
     late     |-> <<Hms(24, 10, 0), Hms(25, 0, 0), Hms(0, 30, 0), Hms(0, 45, 0), Hms(26, 0, 0)>>,
     broken   |-> <<Hms(8, 0, 0), <<"8">>, Hms(8, 12, 0), <<"0", "8", ":", "x", "x">>, <<>>>>]

ProfileNames == {"morning", "midnight", "late"}

\* The stop-time rows of one trip: stop_sequence counts from 1, the k-th stop arrives
\* at the (k + shift)-th time of the profile.
TripRows(trip, stops, profile, shift) ==
    [k \in 1..Len(stops) |->
        [trip_id |-> trip, stop_id |-> stops[k],
         arrival_time |-> Profiles[profile][k + shift], stop_sequence |-> k]]

TransferRow(from, to, seconds) ==
    [from_stop_id |-> from, to_stop_id |-> to, transfer_type |-> 2,
     min_transfer_time |-> seconds]

TransferRowPool ==
    {TransferRow(<<"1", "N">>, <<"1", "S">>, <<600>>),
     TransferRow(<<"2">>, <<"3">>, <<>>),
     TransferRow(<<"3">>, <<"2">>, <<90>>),
     TransferRow(<<"1", "S">>, <<"2">>, <<0>>),
     TransferRow(<<"3">>, <<"1", "S">>, <<149>>),
     TransferRow(<<"2">>, <<"2">>, <<180>>)}

\* Sequences of at most n rows of the pool, no row twice: (from, to) is a key of the
\* transfers table.
TransferSeqs(n) ==
    {ts \in SeqsUpTo(TransferRowPool, n) :
        \A i, j \in 1..Len(ts) : i # j => ts[i] # ts[j]}

StopRow(id) == [id |-> id, name |-> <<"S", "t", " ">> \o id, parent_stop_id |-> NULL]

\* The stops table in primary-key order.
AllStopRows ==
    <<StopRow(<<"1", "N">>), StopRow(<<"1", "S">>), StopRow(<<"2">>), StopRow(<<"3">>)>>

Snapshot(t1, t2, profile, transfers, descending) ==
    LET rows == TripRows("T1", t1, profile, 0) \o TripRows("T2", t2, profile, 1)
    IN  [stops |-> AllStopRows,
         stopTimes |-> IF descending THEN Reverse(rows) ELSE rows,
         transfers |-> transfers]

Request(origins, dests, maxPaths) ==
    [originStopIds |-> origins, destStopIds |-> dests, maxPaths |-> maxPaths]

\* Graph snapshots: two trips of at most MaxRows stop times together, rows read in
\* descending order; one trip of at most MaxRows - 2 stops with each transfer table;
\* and one trip of at most MaxTripLen stops under each profile, rows descending.
GraphSnapshots ==
    {Snapshot(t1, t2, "morning", <<>>, TRUE) :
        t1 \in SeqsUpTo(StopIds, MaxRows - 2), t2 \in SeqsBetween(StopIds, 2, 2)}
    \cup
    {Snapshot(t1, <<>>, "morning", ts, FALSE) :
        t1 \in SeqsUpTo(StopIds, MaxRows - 2), ts \in TransferSeqs(MaxTransferRows)}
    \cup
    {Snapshot(t1, <<>>, p, <<>>, TRUE) :
        t1 \in SeqsBetween(StopIds, 2, MaxTripLen), p \in ProfileNames}

\* Each graph snapshot is searched for one pair of stops.
PairRequests == {Request(<<a>>, <<b>>, 1) : a \in StopIds, b \in StopIds}

\* The request snapshot: one trip, queried with every pair of id lists.
RequestSnapshots ==
    {Snapshot(<<<<"1", "N">>, <<"2">>, <<"3">>>>, <<>>, "morning", <<>>, TRUE)}

RequestIds == {<<"1", "N">>, <<"2">>, <<"3">>}

ListRequests ==
    {Request(os, ds, n) :
        os \in SeqsBetween(RequestIds, 1, MaxIds),
        ds \in SeqsBetween(RequestIds, 1, MaxIds),
        n \in 0..MaxPaths}

Snapshots == GraphSnapshots \cup RequestSnapshots

\* The arguments findPaths is called with on a snapshot.
RequestsFor(snapshot) ==
    IF snapshot \in RequestSnapshots THEN ListRequests ELSE PairRequests

(***************************************************************************)
(* findPaths                                                               *)
(***************************************************************************)
\* Insert r after every element whose totalTime is <= r's: a stable sort.
RECURSIVE InsertByTime(_, _)
InsertByTime(sorted, r) ==
    IF sorted = <<>> THEN <<r>>
    ELSE IF JsSub(Head(sorted).totalTime, r.totalTime) = NaN
            \/ Head(sorted).totalTime <= r.totalTime
         THEN <<Head(sorted)>> \o InsertByTime(Tail(sorted), r)
         ELSE <<r>> \o sorted

SortByTimeDropped(rs) == rs

\* results.sort((a, b) => a.totalTime - b.totalTime)
RECURSIVE SortByTime(_)
SortByTime(rs) ==
    IF rs = <<>> THEN <<>>
    ELSE InsertByTime(SortByTime(SubSeq(rs, 1, Len(rs) - 1)), rs[Len(rs)])

SliceToAll(rs, n) == rs

\* Array.prototype.slice(0, n)
SliceTo(rs, n) ==
    IF n >= 0 THEN SubSeq(rs, 1, Min(n, Len(rs)))
    ELSE SubSeq(rs, 1, Max(Len(rs) + n, 0))

EnoughNever(rs) == FALSE

\* Lines 245 and 249: results.length >= maxPaths
Enough(rs) == Len(rs) >= request.maxPaths

\* Line 231.
findPathsCall ==
    /\ Calling("findPaths")
    /\ fp = "idle"
    /\ request' \in RequestsFor(db)
    /\ fp' = "loop"
    /\ oi' = 1
    /\ di' = 1
    /\ results' = <<>>
    /\ searched' = <<>>
    /\ UNCHANGED <<db, authVars, serverVars, script, pc, finderVars, queue, visited, bestPath,
                   event, returned>>

\* Line 237: the pair is skipped when origin and destination are the same stop.
findPathsSkipSame ==
    /\ fp = "loop"
    /\ oi <= Len(request.originStopIds)
    /\ di <= Len(request.destStopIds)
    /\ request.originStopIds[oi] = request.destStopIds[di]
    /\ di' = di + 1
    /\ UNCHANGED <<db, authVars, serverVars, request, script, pc, finderVars, fp, oi, results, queue, visited,
                   bestPath, searched, event, returned>>

\* What follows a pair's search (lines 240-245): the result is appended when there is
\* one, and the inner loop is left when enough results are collected.
AfterPair(found) ==
    LET rs == results \o found
    IN  /\ results' = rs
        /\ di' = IF Enough(rs) THEN Len(request.destStopIds) + 1 ELSE di + 1
        /\ fp' = "loop"

\* Lines 239 and 264-267: findShortestPath is called and returns null at once, the
\* start having no entry in stopConnections.
findShortestPathNoStart ==
    /\ fp = "loop"
    /\ oi <= Len(request.originStopIds)
    /\ di <= Len(request.destStopIds)
    /\ request.originStopIds[oi] # request.destStopIds[di]
    /\ ~HasKey(stopConnections, request.originStopIds[oi])
    /\ searched' = Append(searched, [origin |-> request.originStopIds[oi],
                                     dest |-> request.destStopIds[di],
                                     before |-> Len(results), result |-> <<>>])
    /\ AfterPair(<<>>)
    /\ UNCHANGED <<db, authVars, serverVars, request, script, pc, finderVars, oi, queue, visited, bestPath,
                   event, returned>>

\* Lines 239 and 264-292: findShortestPath is called and starts its queue.
findShortestPathCall ==
    /\ fp = "loop"
    /\ oi <= Len(request.originStopIds)
    /\ di <= Len(request.destStopIds)
    /\ request.originStopIds[oi] # request.destStopIds[di]
    /\ HasKey(stopConnections, request.originStopIds[oi])
    /\ searched' = Append(searched, [origin |-> request.originStopIds[oi],
                                     dest |-> request.destStopIds[di],
                                     before |-> Len(results), result |-> <<>>])
    /\ queue' = <<StartCandidate(request.originStopIds[oi])>>
    /\ visited' = {}
    /\ bestPath' = <<>>
    /\ event' = <<>>
    /\ fp' = "search"
    /\ UNCHANGED <<db, authVars, serverVars, request, script, pc, finderVars, oi, di, results, returned>>

\* Lines 294-397: one iteration of the while loop.
findShortestPathStep ==
    /\ fp = "search"
    /\ queue # <<>>
    /\ LET s == SearchIteration(Finder,
                                [queue |-> queue, visited |-> visited, bestPath |-> bestPath],
                                request.destStopIds[di])
       IN  /\ queue' = s.queue
           /\ visited' = s.visited
           /\ bestPath' = s.bestPath
           /\ event' = <<s.event>>
    /\ UNCHANGED <<db, authVars, serverVars, request, script, pc, finderVars, fp, oi, di, results, searched,
                   returned>>

\* Line 399 and lines 240-245: the queue is empty, bestPath is returned to findPaths.
findShortestPathReturn ==
    /\ fp = "search"
    /\ queue = <<>>
    /\ searched' = [searched EXCEPT ![Len(searched)].result = bestPath]
    /\ AfterPair(bestPath)
    /\ UNCHANGED <<db, authVars, serverVars, request, script, pc, finderVars, oi, queue, visited, bestPath,
                   event, returned>>

\* Lines 246-250: the inner loop is over; the outer loop goes on unless enough results
\* are collected.
findPathsNextOrigin ==
    /\ fp = "loop"
    /\ oi <= Len(request.originStopIds)
    /\ di > Len(request.destStopIds)
    /\ ~Enough(results)
    /\ oi' = oi + 1
    /\ di' = 1
    /\ UNCHANGED <<db, authVars, serverVars, request, script, pc, finderVars, fp, results, queue, visited,
                   bestPath, searched, event, returned>>

LoopsOver ==
    oi > Len(request.originStopIds) \/ (di > Len(request.destStopIds) /\ Enough(results))

\* Lines 252-256: the loops are over; the results are sorted, cut and returned.
findPathsReturn ==
    /\ fp = "loop"
    /\ LoopsOver
    /\ returned' = SliceTo(SortByTime(results), request.maxPaths)
    /\ fp' = "done"
    /\ pc' = pc + 1
    /\ UNCHANGED <<db, authVars, serverVars, request, script, finderVars, oi, di, results, queue, visited,
                   bestPath, searched, event>>

\* The order in which findRoutes (lines 567-576) and the findPath handler call the
\* methods of a fresh instance.
FindRoutesScript == <<"processStops", "processStopTimes", "processTransfers", "findPaths">>

\* A fresh TransitRouteFinder (lines 42-47) and a caller about to run script sc.
FreshFinder(sc) ==
    /\ script = sc
    /\ pc = 1
    /\ stopsByLine = <<>>
    /\ stopConnections = <<>>
    /\ stationNames = <<>>
    /\ transferOptions = <<>>
    /\ stopTimesMap = <<>>
    /\ directLines = <<>>
    /\ fp = "idle"
    /\ oi = 0
    /\ di = 0
    /\ results = <<>>
    /\ queue = <<>>
    /\ visited = {}
    /\ bestPath = <<>>
    /\ searched = <<>>
    /\ event = <<>>
    /\ returned = <<>>

\* An empty User table at second 0.
NoAccounts ==
    /\ users = <<>>
    /\ now = 0

\* No request handler and no findRoutes call is running.
Fresh(sc) ==
    /\ FreshFinder(sc)
    /\ NoAccounts
    /\ tasks = <<>>
    /\ heap = <<>>
    /\ reads = <<>>

NoRequest == Request(<<>>, <<>>, 0)

Init ==
    /\ db \in Snapshots
    /\ request = NoRequest
    /\ Fresh(FindRoutesScript)

Next ==
    \/ processStops
    \/ processStopTimes
    \/ processTransfers
    \/ findPathsCall
    \/ findPathsSkipSame
    \/ findShortestPathNoStart
    \/ findShortestPathCall
    \/ findShortestPathStep
    \/ findShortestPathReturn
    \/ findPathsNextOrigin
    \/ findPathsReturn

Spec == Init /\ [][Next]_vars

(***************************************************************************)
(* The same calls on snapshots whose arrival times are not all "H:M[:S]"   *)
(***************************************************************************)
MalformedSnapshots ==
    {Snapshot(t1, <<>>, "broken", <<>>, descending) :
        t1 \in SeqsBetween(StopIds, 2, MaxTripLen), descending \in BOOLEAN}

InitMalformed ==
    /\ db \in MalformedSnapshots
    /\ request = NoRequest
    /\ Fresh(FindRoutesScript)

SpecMalformed == InitMalformed /\ [][Next]_vars

(***************************************************************************)
(* The same calls on snapshots of two trips that give a pair of stops      *)
(* several routes of different durations                                   *)
(***************************************************************************)
\* The minutes between two consecutive stops of a trip.
SegmentMinutes == {1, 4, 10}

RECURSIVE SumTo(_, _)
SumTo(ns, k) == IF k = 0 THEN 0 ELSE ns[k] + SumTo(ns, k - 1)

\* The rows of a trip that leaves its first stop at 08:00:00 and takes minutes[k]
\* from its k-th stop to the next.
WeightedTripRows(trip, stops, minutes) ==
    [k \in 1..Len(stops) |->
        [trip_id |-> trip, stop_id |-> stops[k],
         arrival_time |-> Hms(8, SumTo(minutes, k - 1), 0), stop_sequence |-> k]]

\* Trip T1 from 1N to 3, and trip T2 over two to MaxTripLen different stops.
WeightedSnapshots ==
    {[stops |-> AllStopRows,
      stopTimes |-> WeightedTripRows("T1", <<<<"1", "N">>, <<"3">>>>, <<m>>)
                    \o WeightedTripRows("T2", t2, ms),
      transfers |-> <<>>] :
        m \in SegmentMinutes \ {1},
        t2 \in {t \in SeqsBetween(StopIds, 2, MaxTripLen) : \A i, j \in 1..Len(t) : i # j => t[i] # t[j]},
        ms \in [1..(MaxTripLen - 1) -> SegmentMinutes]}

InitSearch ==
    /\ db \in WeightedSnapshots
    /\ request = NoRequest
    /\ Fresh(FindRoutesScript)

SpecSearch == InitSearch /\ [][Next]_vars

\* The snapshots whose first trip takes 4 minutes and whose second trip takes 1 minute
\* from stop to stop.
UniformSnapshots ==
    {g \in WeightedSnapshots :
        /\ g.stopTimes[2].arrival_time = Hms(8, 4, 0)
        /\ \A k \in 3..Len(g.stopTimes) :
              g.stopTimes[k].arrival_time = Hms(8, g.stopTimes[k].stop_sequence - 1, 0)}

InitSearchUniform ==
    /\ db \in UniformSnapshots
    /\ request = NoRequest
    /\ Fresh(FindRoutesScript)

\* The loop of findShortestPath runs to its end once entered: each iteration that can
\* be executed is executed.
SpecSearchFair == InitSearchUniform /\ [][Next]_vars /\ WF_vars(findShortestPathStep)

(***************************************************************************)
(* The ingestion methods called on one fresh instance in any order, each   *)
(* any number of times, before findPaths                                   *)
(***************************************************************************)
MaxCalls == 3

IngestionMethods == {"processStops", "processStopTimes", "processTransfers"}

CallSequences == SeqsBetween(IngestionMethods, 1, MaxCalls)

\* Trips of two stops: to a variant, from a variant, between the variants of one
\* station, and between stations without variants.
OrderTrips ==
    {<<<<"2">>, <<"1", "N">>>>, <<<<"1", "S">>, <<"3">>>>,
     <<<<"1", "N">>, <<"1", "S">>>>, <<<<"2">>, <<"3">>>>}

\* One of the trips with each transfer table.
OrderSnapshots ==
    {Snapshot(t1, <<>>, "morning", ts, FALSE) :
        t1 \in OrderTrips, ts \in TransferSeqs(MaxTransferRows)}

InitOrder ==
    /\ db \in OrderSnapshots
    /\ request = NoRequest
    /\ \E calls \in CallSequences : Fresh(calls \o <<"findPaths">>)

SpecOrder == InitOrder /\ [][Next]_vars

(***************************************************************************)
(* The same calls on snapshots of one trip that visits a stop more than    *)
(* once                                                                    *)
(***************************************************************************)
LoopStops == {<<"1", "N">>, <<"2">>, <<"3">>}

\* One trip of MaxRows stops, some stop of it visited twice or more.
LoopSnapshots ==
    {Snapshot(t1, <<>>, "morning", <<>>, FALSE) :
        t1 \in {t \in SeqsBetween(LoopStops, MaxRows, MaxRows) : ~(\A i, j \in 1..Len(t) : i # j => t[i] # t[j])}}

InitLoop ==
    /\ db \in LoopSnapshots
    /\ request = NoRequest
    /\ Fresh(FindRoutesScript)

SpecLoop == InitLoop /\ [][Next]_vars

(***************************************************************************)
(* processStopTimes on one trip with arrival times drawn from a pool of    *)
(* well-formed strings                                                     *)
(***************************************************************************)
MaxTimedStops == 3

TimeTriples == {<<8, 5, 0>>, <<23, 58, 0>>, <<0, 2, 0>>, <<0, 2, 30>>, <<25, 0, 29>>}

\* Well-formed "H:M[:S]" strings, each with the seconds it stands for.
WellFormedTimes ==
    {[text |-> Hms(t[1], t[2], t[3]), seconds |-> t[1] * 3600 + t[2] * 60 + t[3]] :
        t \in TimeTriples}
    \cup
    {[text |-> Hm(t[1], t[2]), seconds |-> t[1] * 3600 + t[2] * 60] :
        t \in {<<0, 2>>}}

TimedStopIds == {<<"1", "N">>, <<"2">>}

TimedRows(stops, times) ==
    [k \in 1..Len(stops) |->
        [trip_id |-> "T1", stop_id |-> stops[k], arrival_time |-> times[k].text,
         stop_sequence |-> k]]

TimedSnapshot(stops, times) ==
    [stops |-> AllStopRows, stopTimes |-> TimedRows(stops, times), transfers |-> <<>>]

InitTime ==
    /\ \E n \in 2..MaxTimedStops :
          \E stops \in [1..n -> TimedStopIds], times \in [1..n -> WellFormedTimes] :
              db = TimedSnapshot(stops, times)
    /\ request = NoRequest
    /\ Fresh(<<"processStopTimes">>)

NextTime == processStopTimes

SpecTime == InitTime /\ [][NextTime]_vars

(***************************************************************************)
(* The station resolver: findStationStopIds, normalizeStationName,         *)
(* findAllRelatedStopIds                                                   *)
(***************************************************************************)
UpperCase == <<"A", "B", "C", "D", "E", "F", "G", "H", "I", "J", "K", "L", "M",
               "N", "O", "P", "Q", "R", "S", "T", "U", "V", "W", "X", "Y", "Z">>

LowerCase == <<"a", "b", "c", "d", "e", "f", "g", "h", "i", "j", "k", "l", "m",
               "n", "o", "p", "q", "r", "s", "t", "u", "v", "w", "x", "y", "z">>

\* String.prototype.toLowerCase
toLowerCase(cs) ==
    [i \in 1..Len(cs) |->
        IF \E k \in 1..Len(UpperCase) : UpperCase[k] = cs[i]
        THEN LowerCase[CHOOSE k \in 1..Len(UpperCase) : UpperCase[k] = cs[i]]
        ELSE cs[i]]

\* replace(/\s+/g, ' '): every maximal run of whitespace becomes one space.
RECURSIVE CollapseWhitespace(_)
CollapseWhitespace(cs) ==
    IF cs = <<>> THEN <<>>
    ELSE IF IsSpace(Head(cs))
         THEN <<" ">> \o CollapseWhitespace(TrimLeft(cs))
         ELSE <<Head(cs)>> \o CollapseWhitespace(Tail(cs))

\* Lines 483-488.
normalizeStationName(name) == Trim(CollapseWhitespace(toLowerCase(name)))

\* String.prototype.includes
Includes(cs, sub) ==
    \E i \in 0..(Len(cs) - Len(sub)) : SubSeq(cs, i + 1, i + Len(sub)) = sub

\* Lines 448-465: the two maps built from the stop rows, keys and members in
\* insertion order.
RECURSIVE BuildStationMaps(_, _)
BuildStationMaps(stops, acc) ==
    IF stops = <<>> THEN acc
    ELSE LET stop == Head(stops)
             normalizedName == normalizeStationName(stop.name)
             byName == AddConn(acc.stationNameToIds, normalizedName, stop.id)
             byParent == IF ~Falsy(stop.parent_stop_id)
                         THEN AddConn(acc.stationMap, stop.parent_stop_id, stop.id)
                         ELSE acc.stationMap
         IN  BuildStationMaps(Tail(stops),
                              [stationNameToIds |-> byName, stationMap |-> byParent])

\* result.add(id) for each id of ids, in order.
RECURSIVE AddAll(_, _)
AddAll(result, ids) ==
    IF ids = <<>> THEN result ELSE AddAll(SetAdd(result, Head(ids)), Tail(ids))

\* Lines 503-512 and 526-535: each id is added, followed by its children when it is a
\* key of stationMap.
RECURSIVE AddWithChildren(_, _, _)
AddWithChildren(result, ids, stationMap) ==
    IF ids = <<>> THEN result
    ELSE LET r1 == SetAdd(result, Head(ids))
             r2 == IF HasKey(stationMap, Head(ids))
                   THEN AddAll(r1, Conns(stationMap, Head(ids)))
                   ELSE r1
         IN  AddWithChildren(r2, Tail(ids), stationMap)

\* Lines 515-521: the ids of every other name that includes stationName.
RECURSIVE FuzzyWiden(_, _, _)
FuzzyWiden(result, stationName, entries) ==
    IF entries = <<>> THEN result
    ELSE LET e == Head(entries)
             r1 == IF e.key # stationName /\ Includes(e.key, stationName)
                   THEN AddAll(result, e.conns)
                   ELSE result
         IN  FuzzyWiden(r1, stationName, Tail(entries))

RECURSIVE PartialMatchContainsOnly(_, _, _, _)
PartialMatchContainsOnly(result, stationName, entries, stationMap) ==
    IF entries = <<>> THEN result
    ELSE LET e == Head(entries)
             r1 == IF Includes(e.key, stationName)
                   THEN AddWithChildren(result, e.conns, stationMap)
                   ELSE result
         IN  PartialMatchContainsOnly(r1, stationName, Tail(entries), stationMap)

\* Lines 524-537: no exact match; the ids, with their children, of every name that
\* includes stationName or is included in it.
RECURSIVE PartialMatch(_, _, _, _)
PartialMatch(result, stationName, entries, stationMap) ==
    IF entries = <<>> THEN result
    ELSE LET e == Head(entries)
             r1 == IF Includes(e.key, stationName) \/ Includes(stationName, e.key)
                   THEN AddWithChildren(result, e.conns, stationMap)
                   ELSE result
         IN  PartialMatch(r1, stationName, Tail(entries), stationMap)

findAllRelatedStopIdsNoWidening(stationName, stationNameToIds, stationMap) ==
    IF HasKey(stationNameToIds, stationName)
    THEN AddWithChildren(<<>>, Conns(stationNameToIds, stationName), stationMap)
    ELSE PartialMatch(<<>>, stationName, stationNameToIds, stationMap)

\* Lines 491-541.
findAllRelatedStopIds(stationName, stationNameToIds, stationMap) ==
    IF HasKey(stationNameToIds, stationName)
    THEN FuzzyWiden(AddWithChildren(<<>>, Conns(stationNameToIds, stationName), stationMap),
                    stationName, stationNameToIds)
    ELSE PartialMatch(<<>>, stationName, stationNameToIds, stationMap)

\* Lines 431-480, as a value.
StationStopIds(stops, originName, destinationName) ==
    LET maps == BuildStationMaps(stops, [stationNameToIds |-> <<>>, stationMap |-> <<>>])
    IN  [originStopIds |->
             findAllRelatedStopIds(normalizeStationName(originName),
                                   maps.stationNameToIds, maps.stationMap),
         destinationStopIds |->
             findAllRelatedStopIds(normalizeStationName(destinationName),
                                   maps.stationNameToIds, maps.stationMap),
         stopData |-> stops]

MaxStations == 3

\* The character U+2014 (em dash), one element of a string like any other.
EmDash == "\\u2014"

\* "Main St", "Main St-West" with the dash of the timetable, "MAIN  ST " and "West".
StationNamePool ==
    {<<"M", "a", "i", "n", " ", "S", "t">>,
     <<"M", "a", "i", "n", " ", "S", "t", EmDash, "W", "e", "s", "t">>,
     <<"M", "A", "I", "N", " ", " ", "S", "T", " ">>,
     <<"W", "e", "s", "t">>}

\* "main st", " Main<tab>St", "west", "st-w" with that dash, and "East".
OriginNamePool ==
    {<<"m", "a", "i", "n", " ", "s", "t">>,
     <<" ", "M", "a", "i", "n", "\t", "S", "t">>,
     <<"w", "e", "s", "t">>,
     <<"s", "t", EmDash, "w">>,
     <<"E", "a", "s", "t">>}

\* "West", "Main" and "West Main St".
DestinationNamePool ==
    {<<"W", "e", "s", "t">>, <<"M", "a", "i", "n">>,
     <<"W", "e", "s", "t", " ", "M", "a", "i", "n", " ", "S", "t">>}

StationIds == <<<<"1">>, <<"1", "N">>, <<"1", "S">>, <<"2">>, <<"3">>>>

\* The k-th row of the stops table; a stop is a parent station, or the child of the
\* first station.
StationRows(names, parents) ==
    [k \in 1..Len(names) |->
        [id |-> StationIds[k], name |-> names[k], parent_stop_id |-> parents[k]]]

NameRequest(originName, destinationName) ==
    [originName |-> originName, destinationName |-> destinationName]

\* Lines 431-480.
findStationStopIds ==
    /\ Calling("findStationStopIds")
    /\ \E originName \in OriginNamePool, destinationName \in DestinationNamePool :
          /\ request' = NameRequest(originName, destinationName)
          /\ returned' = StationStopIds(db.stops, originName, destinationName)
    /\ pc' = pc + 1
    /\ UNCHANGED <<db, authVars, serverVars, script, finderVars, searchVars>>

InitResolve ==
    /\ \E n \in 1..MaxStations :
          \E names \in [1..n -> StationNamePool], parents \in [1..n -> {NULL, StationIds[1]}] :
              db = [stops |-> StationRows(names, parents), stopTimes |-> <<>>,
                    transfers |-> <<>>]
    /\ request = NoRequest
    /\ Fresh(<<"findStationStopIds">>)

NextResolve == findStationStopIds

SpecResolve == InitResolve /\ [][NextResolve]_vars

(***************************************************************************)
(* The findPath request handler (controllers/map.controller.ts) and        *)
(* findRoutes, as asynchronous tasks that interleave at their awaits       *)
(***************************************************************************)
\* A string of characters is falsy when it is empty.
FalsyText(cs) == cs = <<>>

\* A query parameter is <<>> when the request does not give it and <<text>> when it
\* does; it is falsy when it is undefined or the empty string.
FalsyParam(param) == param = <<>> \/ FalsyText(param[1])

\* getStationName, lines 403-405: stationNames.get(stopId) || stopId
getStationName(names, stopId) ==
    IF stopId \in DOMAIN names /\ ~FalsyText(names[stopId]) THEN names[stopId] ELSE stopId

\* findPaths (lines 231-256) as a value: the double loop from position (i, j) on with
\* the results rs collected so far.
RECURSIVE PairLoop(_, _, _, _, _, _, _)
PairLoop(fd, os, ds, i, j, rs, maxPaths) ==
    IF i > Len(os) THEN rs
    ELSE IF j > Len(ds)
         THEN IF Len(rs) >= maxPaths THEN rs ELSE PairLoop(fd, os, ds, i + 1, 1, rs, maxPaths)
    ELSE IF os[i] = ds[j] THEN PairLoop(fd, os, ds, i, j + 1, rs, maxPaths)
    ELSE LET rs1 == rs \o findShortestPath(fd, os[i], ds[j])
         IN  IF Len(rs1) >= maxPaths THEN rs1
             ELSE PairLoop(fd, os, ds, i, j + 1, rs1, maxPaths)

findPaths(fd, originStopIds, destStopIds, maxPaths) ==
    SliceTo(SortByTime(PairLoop(fd, originStopIds, destStopIds, 1, 1, <<>>, maxPaths)),
            maxPaths)

\* Lines 42-47 and 50-52: the fields of a new instance; done lists the method calls
\* completed on it, each with the task that made it.
NewInstance ==
    [stopsByLine |-> <<>>, stopConnections |-> <<>>, stationNames |-> <<>>,
     transferOptions |-> <<>>, stopTimesMap |-> <<>>, directLines |-> <<>>,
     line |-> <<>>, done |-> <<>>]

NewRouteFinderShared(h) == IF h = <<>> THEN [heap |-> <<NewInstance>>, ref |-> 1]
                           ELSE [heap |-> h, ref |-> 1]

\* new TransitRouteFinder(prisma): the heap with the new instance, and its reference.
NewRouteFinder(h) == [heap |-> Append(h, NewInstance), ref |-> Len(h) + 1]

Called(instance, method, t) == [instance EXCEPT !.done = Append(@, [method |-> method, by |-> t])]

\* controller line 33: maxPaths when the query does not give it.
DefaultMaxPaths == 5

\* controller line 33: req.query.maxPaths ? Number(req.query.maxPaths) : 5
MaxPathsOf(param) == IF FalsyParam(param) THEN DefaultMaxPaths ELSE JsNumber(param[1])

Response(status, message, routes) == [status |-> status, message |-> message, routes |-> routes]

\* controller lines 83-104: a route with the names of its stops.
FormattedRoutes(names, routes) ==
    [k \in 1..Len(routes) |->
        [routeNumber |-> k,
         totalStops |-> Len(routes[k].path),
         stops |-> [i \in 1..Len(routes[k].path) |->
                       [id |-> routes[k].path[i],
                        name |-> getStationName(names, routes[k].path[i])]],
         totalTime |-> routes[k].totalTime,
         transfers |-> routes[k].transfers,
         transferPoints |-> [i \in 1..Len(routes[k].transferPoints) |->
                                [id |-> routes[k].transferPoints[i],
                                 name |-> getStationName(names, routes[k].transferPoints[i])]]]]

\* controller lines 54-134: what the handler answers once the three ingestion calls
\* have returned on instance fd.
Answer(fd, fromStopId, toStopId, maxPaths) ==
    LET fromStopName == getStationName(fd.stationNames, fromStopId)
        toStopName == getStationName(fd.stationNames, toStopId)
    IN  IF fromStopName = fromStopId THEN Response(404, "Origin stop ID not found", <<>>)
        ELSE IF toStopName = toStopId
        THEN Response(404, "Destination stop ID not found", <<>>)
        ELSE LET routes == findPaths(fd, <<fromStopId>>, <<toStopId>>, maxPaths)
             IN  IF Len(routes) > 0
                 THEN Response(200, "", FormattedRoutes(fd.stationNames, routes))
                 ELSE Response(404, "No routes found", <<>>)

\* The tasks: a findPath request with its query parameters, or a findRoutes call with
\* its arguments.
NoQuery == [from |-> <<>>, to |-> <<>>, maxPaths |-> <<>>]

NoArgs == [originStation |-> <<>>, destinationStation |-> <<>>, maxPaths |-> 0]

FindPathTask(from, to, maxPaths) ==
    [kind |-> "findPath", query |-> [from |-> from, to |-> to, maxPaths |-> maxPaths],
     args |-> NoArgs, at |-> "new",
     routeFinder |-> 0, originStopIds |-> <<>>, destinationStopIds |-> <<>>,
     failed |-> FALSE, responses |-> <<>>, searches |-> 0, disconnects |-> 0,
     returns |-> <<>>, thrown |-> FALSE]

FindRoutesTask(originStation, destinationStation, maxPaths) ==
    [kind |-> "findRoutes", query |-> NoQuery,
     args |-> [originStation |-> originStation, destinationStation |-> destinationStation,
               maxPaths |-> maxPaths],
     at |-> "new",
     routeFinder |-> 0, originStopIds |-> <<>>, destinationStopIds |-> <<>>,
     failed |-> FALSE, responses |-> <<>>, searches |-> 0, disconnects |-> 0,
     returns |-> <<>>, thrown |-> FALSE]

\* Two tasks run at the same time.
Tasks == {1, 2}

\* Task t calls method, which issues prisma.<table>.findMany().
Issued(rs, t, table, method) ==
    [rs EXCEPT ![t] = Append(@, [table |-> table, method |-> method, failed |-> FALSE])]

\* The pending read of task t, the last one it issued, has been rejected.
LastReadFailedBy(rs, t) == [rs EXCEPT ![t][Len(rs[t])].failed = TRUE]

\* controller lines 28-50: the handler validates the parameters, creates its route
\* finder and calls processStops, which issues the read of the stops.
findPathEntry(t) ==
    /\ tasks[t].kind = "findPath"
    /\ tasks[t].at = "new"
    /\ IF FalsyParam(tasks[t].query.from) \/ FalsyParam(tasks[t].query.to)
       THEN /\ tasks' = [tasks EXCEPT ![t].at = "done",
                                      ![t].responses =
                                          Append(@, Response(400, "Both required", <<>>))]
            /\ UNCHANGED <<heap, reads>>
       ELSE LET n == NewRouteFinder(heap)
            IN  /\ heap' = n.heap
                /\ tasks' = [tasks EXCEPT ![t].at = "stops", ![t].routeFinder = n.ref]
                /\ reads' = Issued(reads, t, "stops", "processStops")
    /\ UNCHANGED <<db, authVars, request, script, pc, finderVars, searchVars, returned>>

\* findRoutes lines 545-558: findStationStopIds is called and issues its read.
findRoutesEntry(t) ==
    /\ tasks[t].kind = "findRoutes"
    /\ tasks[t].at = "new"
    /\ tasks' = [tasks EXCEPT ![t].at = "resolve"]
    /\ reads' = Issued(reads, t, "stops", "findStationStopIds")
    /\ UNCHANGED <<db, authVars, heap, request, script, pc, finderVars, searchVars, returned>>

\* findRoutes lines 554-567: findStationStopIds returns; the route finder is created
\* and processStops is called.
findStationStopIdsReturns(t) ==
    /\ tasks[t].at = "resolve"
    /\ LET ids == StationStopIds(db.stops, tasks[t].args.originStation,
                                 tasks[t].args.destinationStation)
           n == NewRouteFinder(heap)
       IN  /\ heap' = n.heap
           /\ tasks' = [tasks EXCEPT ![t].at = "stops", ![t].routeFinder = n.ref,
                                     ![t].originStopIds = ids.originStopIds,
                                     ![t].destinationStopIds = ids.destinationStopIds]
    /\ reads' = Issued(reads, t, "stops", "processStops")
    /\ UNCHANGED <<db, authVars, request, script, pc, finderVars, searchVars, returned>>

processStopsReturnsThenTransfers(t) ==
    /\ tasks[t].at = "stops"
    /\ LET r == tasks[t].routeFinder
       IN  heap' = [heap EXCEPT ![r] =
                       Called([@ EXCEPT !.stationNames = StopsIngested(@, db.stops)],
                              "processStops", t)]
    /\ tasks' = [tasks EXCEPT ![t].at = "transfers"]
    /\ reads' = Issued(reads, t, "transfers", "processTransfers")
    /\ UNCHANGED <<db, authVars, request, script, pc, finderVars, searchVars, returned>>

\* processStops returns to its caller, which calls processStopTimes.
processStopsReturns(t) ==
    /\ tasks[t].at = "stops"
    /\ LET r == tasks[t].routeFinder
       IN  heap' = [heap EXCEPT ![r] =
                       Called([@ EXCEPT !.stationNames = StopsIngested(@, db.stops)],
                              "processStops", t)]
    /\ tasks' = [tasks EXCEPT ![t].at = "stopTimes"]
    /\ reads' = Issued(reads, t, "stopTimes", "processStopTimes")
    /\ UNCHANGED <<db, authVars, request, script, pc, finderVars, searchVars, returned>>

\* processStopTimes returns to its caller, which calls processTransfers.
processStopTimesReturns(t) ==
    /\ tasks[t].at = "stopTimes"
    /\ LET r == tasks[t].routeFinder
       IN  heap' = [heap EXCEPT ![r] =
                       Called(StopTimesIngested(@, db.stopTimes), "processStopTimes", t)]
    /\ tasks' = [tasks EXCEPT ![t].at = "transfers"]
    /\ reads' = Issued(reads, t, "transfers", "processTransfers")
    /\ UNCHANGED <<db, authVars, request, script, pc, finderVars, searchVars, returned>>

\* processTransfers returns to its caller, which runs to its next await or to its end
\* without a pause: the handler checks the names, calls findPaths and answers
\* (controller lines 54-134); findRoutes calls findPaths and goes on to disconnect
\* (lines 572-608).
processTransfersReturns(t) ==
    /\ tasks[t].at = "transfers"
    /\ LET r == tasks[t].routeFinder
           fd == Called(TransfersIngested(heap[r], db.transfers), "processTransfers", t)
       IN  IF tasks[t].kind = "findPath"
           THEN LET answer == Answer(fd, tasks[t].query.from[1], tasks[t].query.to[1],
                                     MaxPathsOf(tasks[t].query.maxPaths))
                    searchedIt == answer.status = 200 \/ answer.message = "No routes found"
                IN  /\ heap' = [heap EXCEPT ![r] =
                                   IF searchedIt THEN Called(fd, "findPaths", t) ELSE fd]
                    /\ tasks' = [tasks EXCEPT ![t].at = "done",
                                              ![t].searches = IF searchedIt THEN @ + 1 ELSE @,
                                              ![t].responses = Append(@, answer)]
           ELSE /\ heap' = [heap EXCEPT ![r] = Called(fd, "findPaths", t)]
                /\ tasks' = [tasks EXCEPT ![t].at = "disconnect",
                                          ![t].searches = @ + 1,
                                          ![t].returns =
                                              <<findPaths(fd, tasks[t].originStopIds,
                                                          tasks[t].destinationStopIds,
                                                          tasks[t].args.maxPaths)>>]
    /\ UNCHANGED <<db, authVars, reads, request, script, pc, finderVars, searchVars, returned>>

readFailsAndIsRetried(t) ==
    /\ tasks[t].at \in {"resolve", "stops", "stopTimes", "transfers"}
    /\ Len(reads[t]) < 6
    /\ LET last == reads[t][Len(reads[t])]
       IN  reads' = Issued(LastReadFailedBy(reads, t), t, last.table, last.method)
    /\ UNCHANGED <<db, authVars, tasks, heap, request, script, pc, finderVars, searchVars, returned>>

\* The pending bulk read of a task is rejected: the handler's catch answers 500
\* (controller lines 135-144); findRoutes goes to its finally block (lines 606-609).
readFails(t) ==
    /\ tasks[t].at \in {"resolve", "stops", "stopTimes", "transfers"}
    /\ reads' = LastReadFailedBy(reads, t)
    /\ tasks' = IF tasks[t].kind = "findPath"
                THEN [tasks EXCEPT ![t].at = "done", ![t].failed = TRUE,
                                   ![t].responses =
                                       Append(@, Response(500, "Internal server error", <<>>))]
                ELSE [tasks EXCEPT ![t].at = "disconnect", ![t].failed = TRUE,
                                   ![t].returns = <<>>]
    /\ UNCHANGED <<db, authVars, heap, request, script, pc, finderVars, searchVars, returned>>

\* findRoutes lines 601-616: prisma.$disconnect() settles; the routes are returned, or
\* the error is logged and thrown again.
disconnectSettles(t) ==
    /\ tasks[t].at = "disconnect"
    /\ \E rejected \in BOOLEAN :
          tasks' = [tasks EXCEPT ![t].at = "done",
                                 ![t].disconnects = @ + 1,
                                 ![t].thrown = tasks[t].failed \/ rejected,
                                 ![t].returns = IF tasks[t].failed \/ rejected THEN <<>> ELSE @]
    /\ UNCHANGED <<db, authVars, heap, reads, request, script, pc, finderVars, searchVars, returned>>

\* The stops table of the served snapshots: stop 2 is stored under the name "St 2",
\* under a name equal to its id, under the empty name, or is not stored.
ServedStopTables ==
    {<<StopRow(<<"1", "N">>), [StopRow(<<"2">>) EXCEPT !.name = name], StopRow(<<"3">>)>> :
        name \in {<<"S", "t", " ", "2">>, <<"2">>, <<>>}}
    \cup {<<StopRow(<<"1", "N">>), StopRow(<<"3">>)>>}

\* The schedules of the served snapshots: one trip 1N, 2, 3; a trip 1N, 2 and a trip
\* 2, 3; a trip 1N, 2 and a transfer row from 2 to 3.
ServedSchedules ==
    {Snapshot(<<<<"1", "N">>, <<"2">>, <<"3">>>>, <<>>, "morning", <<>>, TRUE),
     Snapshot(<<<<"1", "N">>, <<"2">>>>, <<<<"2">>, <<"3">>>>, "morning", <<>>, FALSE),
     Snapshot(<<<<"1", "N">>, <<"2">>>>, <<>>, "morning",
              <<TransferRow(<<"2">>, <<"3">>, <<>>)>>, FALSE)}

ServedSnapshots == {[g EXCEPT !.stops = st] : g \in ServedSchedules, st \in ServedStopTables}

\* Requests: from is a stop id, an unknown id or missing; maxPaths is missing or "1".
FindPathTasks ==
    {FindPathTask(from, to, maxPaths) :
        from \in {<<<<"1", "N">>>>, <<<<"2">>>>, <<<<"9">>>>, <<>>},
        to \in {<<<<"3">>>>, <<<<"2">>>>},
        maxPaths \in {<<>>, <<<<"1">>>>}}

\* Calls of findRoutes: "St 1N" names one stop, "st" is part of every name.
FindRoutesTasks ==
    {FindRoutesTask(originStation, <<"S", "t", " ", "3">>, maxPaths) :
        originStation \in {<<"S", "t", " ", "1", "N">>, <<"s", "t">>},
        maxPaths \in {1, MaxPaths}}

\* The task that runs at the same time.
SecondTasks ==
    {FindPathTask(<<<<"2">>>>, <<<<"3">>>>, <<>>),
     FindPathTask(<<<<"1", "N">>>>, <<<<"2">>>>, <<<<"1">>>>),
     FindRoutesTask(<<"S", "t", " ", "2">>, <<"S", "t", " ", "3">>, 1)}

InitServer ==
    /\ db \in ServedSnapshots
    /\ request = NoRequest
    /\ FreshFinder(<<>>)
    /\ \E first \in FindPathTasks \cup FindRoutesTasks, second \in SecondTasks :
          tasks = <<first, second>>
    /\ heap = <<>>
    /\ reads = [t \in Tasks |-> <<>>]
    /\ NoAccounts

NextServer ==
    \E t \in Tasks :
        \/ findPathEntry(t)
        \/ findRoutesEntry(t)
        \/ findStationStopIdsReturns(t)
        \/ processStopsReturns(t)
        \/ processStopTimesReturns(t)
        \/ processTransfersReturns(t)
        \/ readFails(t)
        \/ disconnectSettles(t)

SpecServer == InitServer /\ [][NextServer]_vars

(***************************************************************************)
(* Properties                                                              *)
(***************************************************************************)
RECURSIVE SumSeq(_)
SumSeq(ns) == IF ns = <<>> THEN 0 ELSE Head(ns) + SumSeq(Tail(ns))

IsInjective(seq) == \A i, j \in 1..Len(seq) : i # j => seq[i] # seq[j]

\* The stop a trip's rows give sequence number k.
StopAtSequence(rows, k) == (CHOOSE r \in Range(rows) : r.stop_sequence = k).stop_id

\* A snapshot of one trip whose stops are pairwise distinct and share no base id, and
\* of no transfer rows.
SingleSimpleTrip ==
    /\ db.stopTimes # <<>>
    /\ db.transfers = <<>>
    /\ \A i, j \in 1..Len(db.stopTimes) :
          /\ db.stopTimes[i].trip_id = db.stopTimes[j].trip_id
          /\ i # j => /\ db.stopTimes[i].stop_sequence # db.stopTimes[j].stop_sequence
                      /\ getBaseStationId(db.stopTimes[i].stop_id)
                            # getBaseStationId(db.stopTimes[j].stop_id)

\* findPaths([Si], [Sj], 1) has returned, Si and Sj being the i-th and j-th stop of
\* the trip.
ReturnedForPair(i, j) ==
    /\ fp = "done"
    /\ request.maxPaths = 1
    /\ request.originStopIds = <<StopAtSequence(db.stopTimes, i)>>
    /\ request.destStopIds = <<StopAtSequence(db.stopTimes, j)>>

ExampleTrip == <<<<"1", "N">>, <<"2">>, <<"3">>>>

\* C1: on a snapshot of a single trip with pairwise distinct stops of distinct base
\* ids and no transfer rows, findPaths([Si], [Sj], 1) with i < j returns exactly one
\* PathResult: its path is Si, S(i+1), .., Sj in trip order, its totalTime is the sum
\* of the minutes stored for those segments, its transfers is 0; with arrivals
\* 08:00:00, 08:05:00, 08:12:00 the path S1, S2, S3 has totalTime 12.
C1_SingleTripPath ==
    SingleSimpleTrip =>
        \A i, j \in 1..Len(db.stopTimes) :
            (i < j /\ ReturnedForPair(i, j)) =>
                /\ Len(returned) = 1
                /\ returned[1].path =
                      [k \in 1..(j - i + 1) |-> StopAtSequence(db.stopTimes, i + k - 1)]
                /\ returned[1].totalTime =
                      SumSeq([k \in 1..(j - i) |->
                                directLines[1].travelTimes[
                                    PairKey(StopAtSequence(db.stopTimes, i + k - 1),
                                            StopAtSequence(db.stopTimes, i + k))]])
                /\ returned[1].transfers = 0
                /\ (/\ Len(db.stopTimes) = 3 /\ i = 1 /\ j = 3
                    /\ [k \in 1..3 |-> (CHOOSE r \in Range(db.stopTimes) :
                                            r.stop_sequence = k).arrival_time]
                          = <<Hms(8, 0, 0), Hms(8, 5, 0), Hms(8, 12, 0)>>)
                   => returned[1].totalTime = 12

\* The example of C1 has been computed.
C1_Witness ==
    /\ SingleSimpleTrip
    /\ Len(db.stopTimes) = 3
    /\ ReturnedForPair(1, 3)
    /\ returned = <<[path |-> ExampleTrip, totalTime |-> 12, transfers |-> 0,
                     transferPoints |-> <<>>]>>

\* The seconds a well-formed time string stands for.
SecondsOf(text) == (CHOOSE t \in WellFormedTimes : t.text = text).seconds

\* round(d / 60) for d = seconds2 - seconds1, 86400 added once when d < 0: the
\* integer n with n - 1/2 <= d/60 < n + 1/2.
RoundedMinutes(seconds1, seconds2) ==
    LET d0 == seconds2 - seconds1
        d == IF d0 < 0 THEN d0 + 86400 ELSE d0
    IN  CHOOSE n \in ((d \div 60) - 1)..((d \div 60) + 1) :
            60 * n - 30 <= d /\ d < 60 * n + 30

\* The direct line of the only trip stores, under the key of its k-th stop pair, the
\* rounded minutes between the k-th and the (k+1)-th arrival.
StoresPair(k) ==
    LET rows == db.stopTimes
        key == PairKey(rows[k].stop_id, rows[k + 1].stop_id)
        minutes == RoundedMinutes(SecondsOf(rows[k].arrival_time),
                                  SecondsOf(rows[k + 1].arrival_time))
    IN  /\ key \in DOMAIN directLines[1].travelTimes
        /\ directLines[1].travelTimes[key] = minutes
        /\ stopTimesMap[<<"T1", key>>] = minutes

\* The k-th stop pair of the trip is not repeated later in the trip.
LastOccurrence(k) ==
    \A l \in (k + 1)..(Len(db.stopTimes) - 1) :
        <<db.stopTimes[l].stop_id, db.stopTimes[l + 1].stop_id>>
            # <<db.stopTimes[k].stop_id, db.stopTimes[k + 1].stop_id>>

\* C2 as stated: getTimeDifference is round(d / 60) with one wraparound, and that
\* value is stored for each consecutive stop pair of a trip.
C2_StoredForEveryPair ==
    (pc = 2 /\ script = <<"processStopTimes">>) =>
        \A k \in 1..(Len(db.stopTimes) - 1) : StoresPair(k)

\* C2 (amended): getTimeDifference(t1, t2) on well-formed strings is round(d / 60),
\* d = seconds(t2) - seconds(t1) with 86400 added once when d < 0 ("08:00:00" to
\* "08:05:00" is 5, "23:58:00" to "00:02:00" is 4); processStopTimes stores that value
\* for each consecutive stop pair of a trip under the key of the pair, the last
\* occurrence of a pair that the trip repeats being the one that stays stored.
C2_TimeDifferenceStored ==
    /\ getTimeDifference(Hms(8, 0, 0), Hms(8, 5, 0)) = 5
    /\ getTimeDifference(Hms(23, 58, 0), Hms(0, 2, 0)) = 4
    /\ (pc = 2 /\ script = <<"processStopTimes">>) =>
          /\ Len(directLines) = 1
          /\ \A k \in 1..(Len(db.stopTimes) - 1) :
                /\ getTimeDifference(db.stopTimes[k].arrival_time,
                                     db.stopTimes[k + 1].arrival_time)
                      = RoundedMinutes(SecondsOf(db.stopTimes[k].arrival_time),
                                       SecondsOf(db.stopTimes[k + 1].arrival_time))
                /\ LastOccurrence(k) => StoresPair(k)

\* A trip over midnight has been ingested: 23:58:00 then 00:02:00, 4 minutes stored.
C2_Witness ==
    /\ pc = 2
    /\ script = <<"processStopTimes">>
    /\ Len(db.stopTimes) = 2
    /\ db.stopTimes[1].arrival_time = Hms(23, 58, 0)
    /\ db.stopTimes[2].arrival_time = Hms(0, 2, 0)
    /\ directLines[1].travelTimes[PairKey(db.stopTimes[1].stop_id, db.stopTimes[2].stop_id)] = 4

\* The stops reachable from the stops of S along the edges of E.
RECURSIVE ReachFrom(_, _)
ReachFrom(S, E) ==
    LET N == S \cup {e[2] : e \in {f \in E : f[1] \in S}}
    IN  IF N = S THEN S ELSE ReachFrom(N, E)

Reachable(a, b) == b \in ReachFrom({a}, Edges(stopConnections))

\* No route from a to b: a has no adjacency entry, or b is not reachable from a.
NoRoute(a, b) == ~HasKey(stopConnections, a) \/ ~Reachable(a, b)

\* The k-th single-pair search of the current findPaths call has returned.
SearchOver(k) == k < Len(searched) \/ fp # "search"

Ingested == pc = 4 /\ fp = "idle" /\ script = FindRoutesScript

\* C3: findShortestPath(start, end) returns no result whenever start has no adjacency
\* entry or end is not reachable from start through adjacency edges, and findPaths
\* returns an empty list when that holds for every pair of different ids it is given.
C3_NoRouteNoResult ==
    /\ \A k \in 1..Len(searched) :
          (SearchOver(k) /\ NoRoute(searched[k].origin, searched[k].dest))
              => searched[k].result = <<>>
    /\ Ingested =>
          \A a, b \in StopIds :
              (a # b /\ NoRoute(a, b)) => findShortestPath(Finder, a, b) = <<>>
    /\ fp = "done" =>
          ((\A i \in 1..Len(request.originStopIds), j \in 1..Len(request.destStopIds) :
                \/ request.originStopIds[i] = request.destStopIds[j]
                \/ NoRoute(request.originStopIds[i], request.destStopIds[j]))
              => returned = <<>>)

\* findPaths has returned the empty list after a search that explored connections of a
\* start from which the destination cannot be reached.
C3_Witness ==
    /\ fp = "done"
    /\ returned = <<>>
    /\ \E k \in 1..Len(searched) :
          /\ HasKey(stopConnections, searched[k].origin)
          /\ Conns(stopConnections, searched[k].origin) # <<>>
          /\ ~Reachable(searched[k].origin, searched[k].dest)

\* round(seconds / 60), or 5 when the row has no min_transfer_time.
RowMinutes(row) ==
    IF row.min_transfer_time = <<>> THEN 5
    ELSE LET sec == row.min_transfer_time[1]
         IN  CHOOSE n \in ((sec \div 60) - 1)..((sec \div 60) + 1) :
                 60 * n - 30 <= sec /\ sec < 60 * n + 30

\* The id with one trailing N or S removed.
BaseOf(id) ==
    IF id # <<>> /\ id[Len(id)] \in {"N", "S"} THEN SubSeq(id, 1, Len(id) - 1) ELSE id

\* a and b are different keys of the adjacency index with the same base id.
VariantPair(a, b) ==
    /\ a # b
    /\ HasKey(stopConnections, a)
    /\ HasKey(stopConnections, b)
    /\ BaseOf(a) = BaseOf(b)

\* The last transfer row of (a, b), the one whose time stays stored.
LastRowOf(a, b) ==
    LET rows == db.transfers
        k == CHOOSE k \in 1..Len(rows) :
                 /\ rows[k].from_stop_id = a /\ rows[k].to_stop_id = b
                 /\ \A l \in (k + 1)..Len(rows) :
                       ~(rows[l].from_stop_id = a /\ rows[l].to_stop_id = b)
    IN  rows[k]

\* C4: after processTransfers on an instance where processStopTimes has run, every
\* ordered pair (a, b) of different adjacency keys with the same base id has the edge
\* a -> b and the transfer time 2, with or without a transfer row of (a, b); every
\* other (from, to) of a transfer row has the time round(min_transfer_time / 60), or 5
\* when the row has no min_transfer_time.
C4_VariantTransfers ==
    Ingested =>
        /\ \A a, b \in StopIds :
              VariantPair(a, b) =>
                  /\ <<a, b>> \in Edges(stopConnections)
                  /\ <<a, b>> \in DOMAIN transferOptions
                  /\ transferOptions[<<a, b>>] = 2
        /\ \A k \in 1..Len(db.transfers) :
              LET a == db.transfers[k].from_stop_id
                  b == db.transfers[k].to_stop_id
              IN  ~VariantPair(a, b) =>
                      /\ <<a, b>> \in DOMAIN transferOptions
                      /\ transferOptions[<<a, b>>] = RowMinutes(LastRowOf(a, b))

\* A transfer row gave the variant pair (1N, 1S) ten minutes and the pair has 2.
C4_Witness ==
    /\ Ingested
    /\ VariantPair(<<"1", "N">>, <<"1", "S">>)
    /\ transferOptions[<<<<"1", "N">>, <<"1", "S">>>>] = 2
    /\ transferOptions[<<<<"1", "S">>, <<"1", "N">>>>] = 2
    /\ db.transfers = <<TransferRow(<<"1", "N">>, <<"1", "S">>, <<600>>)>>

\* A snapshot without transfer rows has the variant pair (1N, 1S) at 2.
C4_WitnessNoRows ==
    /\ Ingested
    /\ db.transfers = <<>>
    /\ VariantPair(<<"1", "N">>, <<"1", "S">>)
    /\ transferOptions[<<<<"1", "N">>, <<"1", "S">>>>] = 2

Last(seq) == seq[Len(seq)]

Sorted(rs) == \A i \in 1..(Len(rs) - 1) : rs[i].totalTime <= rs[i + 1].totalTime

\* The number of results of rs that go from o to d.
ResultsFor(rs, o, d) ==
    Cardinality({i \in 1..Len(rs) : Head(rs[i].path) = o /\ Last(rs[i].path) = d})

\* Each result of rs is the result of a search of its own among the searches made.
OnePerSearch(rs) ==
    \E f \in [1..Len(rs) -> 1..Len(searched)] :
        /\ \A i, j \in 1..Len(rs) : i # j => f[i] # f[j]
        /\ \A i \in 1..Len(rs) : searched[f[i]].result = <<rs[i]>>

PairsInOrder(os, ds) ==
    LET all == [k \in 1..(Len(os) * Len(ds)) |->
                   <<os[((k - 1) \div Len(ds)) + 1], ds[((k - 1) % Len(ds)) + 1]>>]
        Differ(p) == p[1] # p[2]
    IN  SelectSeq(all, Differ)

\* The results of the first n successful pairs of ps, in the order of ps.
FirstSuccesses(ps, n) ==
    LET found == [k \in 1..Len(ps) |-> findShortestPath(Finder, ps[k][1], ps[k][2])]
        Success(r) == r # <<>>
        ok == SelectSeq(found, Success)
    IN  [k \in 1..Min(n, Len(ok)) |-> ok[k][1]]

SameBag(s, t) ==
    /\ Len(s) = Len(t)
    /\ \A x \in Range(s) \cup Range(t) :
          Cardinality({i \in 1..Len(s) : s[i] = x}) = Cardinality({i \in 1..Len(t) : t[i] = x})

\* C6: for maxPaths >= 1, findPaths visits the pairs in origin-major order and starts
\* a single-pair search only while fewer than maxPaths results are collected; the
\* returned paths are exactly the results of the first maxPaths successful pairs in
\* that order, even when a later pair has a path of smaller total time.
C6_FirstSuccessfulPairs ==
    request.maxPaths >= 1 =>
        LET ps == PairsInOrder(request.originStopIds, request.destStopIds)
        IN  /\ Len(searched) <= Len(ps)
            /\ \A k \in 1..Len(searched) :
                  /\ <<searched[k].origin, searched[k].dest>> = ps[k]
                  /\ searched[k].before < request.maxPaths
                  /\ searched[k].before = Cardinality({l \in 1..(k - 1) :
                                                          searched[l].result # <<>>})
            /\ fp = "done" =>
                  /\ SameBag(returned, FirstSuccesses(ps, request.maxPaths))
                  /\ results = FirstSuccesses(ps, request.maxPaths)

\* findPaths([1N], [3, 2], 1) on the trip 1N, 2, 3 has returned the 12-minute path to
\* 3 and has not searched the pair (1N, 2), whose path takes 5 minutes.
C6_Witness ==
    /\ fp = "done"
    /\ request.originStopIds = <<<<"1", "N">>>>
    /\ request.destStopIds = <<<<"3">>, <<"2">>>>
    /\ request.maxPaths = 1
    /\ Len(searched) = 1
    /\ Len(returned) = 1
    /\ returned[1].totalTime = 12
    /\ findShortestPath(Finder, <<"1", "N">>, <<"2">>) # <<>>
    /\ findShortestPath(Finder, <<"1", "N">>, <<"2">>)[1].totalTime = 5

\* C7 as stated: every PathResult returned by findPaths has totalTime >= 0, the
\* arrival_time strings being well-formed "H:M[:S]" with hours that may exceed 23 and
\* the min_transfer_time values being non-negative.
C7_NonNegativeTotalTime ==
    fp = "done" => \A i \in 1..Len(returned) : returned[i].totalTime >= 0

\* transfers and transferPoints of a path agree: as many transfers as transfer points,
\* at most path length - 1, each transfer point a stop of the path before its last
\* stop, in path order.
TransfersAgree(c) ==
    /\ c.transfers = Len(c.transferPoints)
    /\ c.transfers <= Len(c.path) - 1
    /\ \A i \in 1..Len(c.transferPoints) :
          /\ IndexOf(c.path, c.transferPoints[i]) \in 1..(Len(c.path) - 1)
          /\ \A j \in (i + 1)..Len(c.transferPoints) :
                IndexOf(c.path, c.transferPoints[i]) < IndexOf(c.path, c.transferPoints[j])

\* C8: in every PathResult, and in every candidate queued during a search, transfers
\* equals the length of transferPoints and is at most path length - 1, and every
\* transfer point is a stop of path other than its last stop, listed in path order.
C8_TransfersAgree ==
    /\ \A i \in 1..Len(queue) : TransfersAgree(queue[i])
    /\ \A i \in 1..Len(event) : TransfersAgree(event[i].candidate)
    /\ \A i \in 1..Len(bestPath) : TransfersAgree(bestPath[i])
    /\ \A i \in 1..Len(results) : TransfersAgree(results[i])
    /\ \A k \in 1..Len(searched) :
          \A i \in 1..Len(searched[k].result) : TransfersAgree(searched[k].result[i])
    /\ fp = "done" => \A i \in 1..Len(returned) : TransfersAgree(returned[i])

\* A returned path rides a trip and then takes a transfer edge: one transfer, at the
\* stop where the trip is left.
C8_Witness ==
    /\ fp = "done"
    /\ Len(returned) = 1
    /\ returned[1].transfers = 1
    /\ Len(returned[1].path) = 3
    /\ returned[1].transferPoints = <<returned[1].path[2]>>

\* The trip id of the edge from a to b, as the search takes it from the direct lines;
\* null on an edge of no direct line.
TripOfEdge(a, b) == ClassifyOnLines(directLines, a, b).tripId

\* The trip changes at the k-th stop of path: both edges are edges of trips, and of
\* different ones.
TripChangesAt(path, k) ==
    /\ TripOfEdge(path[k - 1], path[k]) # NULL
    /\ TripOfEdge(path[k], path[k + 1]) # NULL
    /\ TripOfEdge(path[k - 1], path[k]) # TripOfEdge(path[k], path[k + 1])

\* C9 as stated: in every returned PathResult, each intermediate stop at which the
\* trip id of the incoming edge differs from the trip id of the outgoing edge appears
\* in transferPoints and is counted once in transfers.
C9_TripChangeIsTransfer ==
    fp = "done" =>
        \A i \in 1..Len(returned) :
            LET r == returned[i]
                changes == {k \in 2..(Len(r.path) - 1) : TripChangesAt(r.path, k)}
            IN  /\ \A k \in changes : r.path[k] \in Range(r.transferPoints)
                /\ r.transfers >= Cardinality(changes)

\* The stops whose normalized name is q.
NamedExactly(q) == {r \in Range(db.stops) : normalizeStationName(r.name) = q}

\* The children of the stops of ps.
ChildrenOf(ps) ==
    {r \in Range(db.stops) : ~Falsy(r.parent_stop_id) /\ \E p \in ps : p.id = r.parent_stop_id}

\* The stops whose normalized name contains q and is not q.
NamedAround(q) ==
    {r \in Range(db.stops) :
        /\ normalizeStationName(r.name) # q
        /\ Includes(normalizeStationName(r.name), q)}

Resolved == pc = 2 /\ script = <<"findStationStopIds">>

ExactMatch(q) == NamedExactly(normalizeStationName(q)) # {}

\* What C10 says of the list ids returned for the query q.
WidenedResult(q, ids) ==
    LET nq == normalizeStationName(q)
    IN  /\ IsInjective(ids)
        /\ \A r \in NamedExactly(nq) \cup ChildrenOf(NamedExactly(nq)) \cup NamedAround(nq) :
              r.id \in Range(ids)

\* C10: when the normalized query equals the normalized name of at least one stop,
\* findAllRelatedStopIds returns a duplicate-free list that contains every stop with
\* that normalized name, all children of those stops, and every stop whose normalized
\* name contains the query as a proper substring; with stations "Main St" and
\* "Main St-West" the query "main st" yields the ids of both.
C10_ExactMatchWidened ==
    Resolved =>
        /\ ExactMatch(request.originName)
              => WidenedResult(request.originName, returned.originStopIds)
        /\ ExactMatch(request.destinationName)
              => WidenedResult(request.destinationName, returned.destinationStopIds)

\* The stations "Main St-West" and "Main St" have been resolved for the query
\* "main st": both ids are returned, the exact match first.
C10_Witness ==
    /\ Resolved
    /\ Len(db.stops) = 2
    /\ db.stops[1].name = <<"M", "a", "i", "n", " ", "S", "t", EmDash, "W", "e", "s", "t">>
    /\ db.stops[2].name = <<"M", "a", "i", "n", " ", "S", "t">>
    /\ request.originName = <<"m", "a", "i", "n", " ", "s", "t">>
    /\ returned.originStopIds = <<<<"1", "N">>, <<"1">>>>

\* C11 as stated: in the exact-match case, the children of every other station pulled
\* in by fuzzy widening are in the result as well.
C11_WidenedChildren ==
    Resolved =>
        /\ ExactMatch(request.originName) =>
              \A r \in ChildrenOf(NamedAround(normalizeStationName(request.originName))) :
                  r.id \in Range(returned.originStopIds)
        /\ ExactMatch(request.destinationName) =>
              \A r \in ChildrenOf(NamedAround(normalizeStationName(request.destinationName))) :
                  r.id \in Range(returned.destinationStopIds)

\* The stops whose normalized name contains q or is contained in q.
NamedPartly(q) ==
    {r \in Range(db.stops) :
        \/ Includes(normalizeStationName(r.name), q)
        \/ Includes(q, normalizeStationName(r.name))}

\* What C12 says of the list ids returned for the query q.
PartialResult(q, ids) ==
    LET nq == normalizeStationName(q)
    IN  /\ IsInjective(ids)
        /\ Range(ids) = {r.id : r \in NamedPartly(nq) \cup ChildrenOf(NamedPartly(nq))}
        /\ NamedPartly(nq) = {} => ids = <<>>

\* C12: when no stop's normalized name equals the normalized query, station
\* resolution returns exactly the stops whose normalized name contains the query or
\* is contained in the query, plus the children of those stops; it returns the empty
\* list when there is no such name, and the result is the same on every run over the
\* same stop rows, and the same set whatever the order of the rows.
C12_PartialMatchExactly ==
    Resolved =>
        /\ ~ExactMatch(request.originName)
              => PartialResult(request.originName, returned.originStopIds)
        /\ ~ExactMatch(request.destinationName)
              => PartialResult(request.destinationName, returned.destinationStopIds)
        /\ returned = StationStopIds(db.stops, request.originName, request.destinationName)
        /\ LET again == StationStopIds(Reverse(db.stops), request.originName,
                                       request.destinationName)
           IN  /\ Range(again.originStopIds) = Range(returned.originStopIds)
               /\ Range(again.destinationStopIds) = Range(returned.destinationStopIds)

\* "West Main St" has been resolved on stops named "Main St" and "West", neither of
\* which is the query but both of which the query contains, and "East" has been
\* resolved to the empty list.
C12_Witness ==
    /\ Resolved
    /\ Len(db.stops) = 2
    /\ db.stops[1].name = <<"M", "a", "i", "n", " ", "S", "t">>
    /\ db.stops[2].name = <<"W", "e", "s", "t">>
    /\ request.destinationName = <<"W", "e", "s", "t", " ", "M", "a", "i", "n", " ", "S", "t">>
    /\ Range(returned.destinationStopIds) = {<<"1">>, <<"1", "N">>}
    /\ request.originName = <<"E", "a", "s", "t">>
    /\ returned.originStopIds = <<>>

\* The ids of the stops table.
StoredIds == {r.id : r \in Range(db.stops)}

\* Task t is a findPath request that gave both stop ids and whose reads all succeeded,
\* and it has been answered.
Answered(t) ==
    /\ tasks[t].kind = "findPath"
    /\ tasks[t].at = "done"
    /\ ~tasks[t].failed
    /\ ~FalsyParam(tasks[t].query.from)
    /\ ~FalsyParam(tasks[t].query.to)

\* C13 as stated: getStationName(id) returns the stored name for every id of the
\* loaded stops and id itself otherwise, so that the findPath handler answers 404
\* "stop ID not found" for the origin or the destination exactly when that id is
\* absent from the stops snapshot.
C13_NotFoundIffAbsent ==
    \A t \in DOMAIN tasks :
        Answered(t) =>
            LET names == heap[tasks[t].routeFinder].stationNames
                from == tasks[t].query.from[1]
                to == tasks[t].query.to[1]
                message == tasks[t].responses[1].message
            IN  /\ \A r \in Range(db.stops) : getStationName(names, r.id) = r.name
                /\ \A id \in {from, to} \ StoredIds : getStationName(names, id) = id
                /\ (message = "Origin stop ID not found") <=> (from \notin StoredIds)
                /\ from \in StoredIds =>
                      ((message = "Destination stop ID not found") <=> (to \notin StoredIds))

\* The methods completed on an instance, in order.
MethodsDone(instance) == [k \in 1..Len(instance.done) |-> instance.done[k].method]

IngestionOrder == <<"processStops", "processStopTimes", "processTransfers">>

IsPrefix(a, b) == Len(a) <= Len(b) /\ a = SubSeq(b, 1, Len(a))

\* C14: in every execution of findRoutes and of the findPath handler, findPaths is
\* invoked only after processStops, processStopTimes and processTransfers have each
\* completed, in that order, on the same freshly created instance; no search runs on
\* an instance that has not had its transfers loaded.
C14_SearchAfterIngestion ==
    /\ \A i \in 1..Len(heap) :
          /\ IsPrefix(MethodsDone(heap[i]), IngestionOrder \o <<"findPaths">>)
          /\ \A k, l \in 1..Len(heap[i].done) : heap[i].done[k].by = heap[i].done[l].by
          /\ Len(heap[i].done) = 0 => heap[i] = NewInstance
    /\ \A t \in DOMAIN tasks :
          /\ tasks[t].searches <= 1
          /\ tasks[t].searches = 1 =>
                /\ tasks[t].routeFinder \in 1..Len(heap)
                /\ MethodsDone(heap[tasks[t].routeFinder]) = IngestionOrder \o <<"findPaths">>
                /\ \A k \in 1..4 : heap[tasks[t].routeFinder].done[k].by = t
          /\ \A u \in DOMAIN tasks :
                (u # t /\ tasks[t].routeFinder # 0) => tasks[u].routeFinder # tasks[t].routeFinder

\* A findPath request has been answered 200 and a findRoutes call has returned routes,
\* each after a search on its own instance.
C14_Witness ==
    /\ tasks[1].kind = "findRoutes"
    /\ tasks[1].at = "done"
    /\ tasks[1].returns # <<>>
    /\ tasks[1].returns[1] # <<>>
    /\ tasks[2].kind = "findPath"
    /\ tasks[2].at = "done"
    /\ tasks[2].responses[1].status = 200
    /\ tasks[1].searches = 1
    /\ tasks[2].searches = 1

\* The text is "H:M" or "H:M:S", each part a non-empty run of digits.
ParsesAsTime(text) ==
    LET parts == Split(text, ":")
    IN  /\ Len(parts) \in {2, 3}
        /\ \A k \in 1..Len(parts) :
              parts[k] # <<>> /\ \A i \in 1..Len(parts[k]) : IsDigit(parts[k][i])

\* C15 as stated: a stop-time row whose arrival_time does not parse as "H:M[:S]" is
\* dropped by processStopTimes (or the call aborts); no not-a-number travel time is
\* stored in a DirectLine or in the travel-time table, and no returned PathResult has
\* a not-a-number totalTime.
C15_NoNaNStored ==
    /\ pc >= 3 =>
          /\ \A k \in 1..Len(directLines) :
                /\ \A key \in DOMAIN directLines[k].travelTimes :
                      directLines[k].travelTimes[key] # NaN
                /\ \A r \in Range(db.stopTimes) :
                      (r.trip_id = directLines[k].trip_id /\ ~ParsesAsTime(r.arrival_time))
                          => r.stop_id \notin Range(directLines[k].stops)
          /\ \A key \in DOMAIN stopTimesMap : stopTimesMap[key] # NaN
    /\ fp = "done" => \A i \in 1..Len(returned) : returned[i].totalTime # NaN

\* C16: if a bulk read of stops, stop times or transfers fails, the query ends in an
\* error (findRoutes throws again after disconnecting, the findPath handler sends one
\* 500 response), findPaths is never called on the partially built graph, and the
\* failed read is not issued again.
C16_ReadFailureIsFatal ==
    \A t \in DOMAIN tasks :
        /\ Len(tasks[t].responses) <= 1
        /\ \A k \in 1..Len(reads[t]) :
              reads[t][k].failed =>
                  /\ k = Len(reads[t])
                  /\ tasks[t].failed
                  /\ tasks[t].at \in {"disconnect", "done"}
        /\ tasks[t].failed =>
              /\ reads[t][Len(reads[t])].failed
              /\ tasks[t].searches = 0
              /\ tasks[t].routeFinder # 0 =>
                    "findPaths" \notin Range(MethodsDone(heap[tasks[t].routeFinder]))
              /\ tasks[t].kind = "findPath" =>
                    /\ tasks[t].at = "done"
                    /\ Len(tasks[t].responses) = 1
                    /\ tasks[t].responses[1].status = 500
              /\ tasks[t].kind = "findRoutes" =>
                    /\ tasks[t].responses = <<>>
                    /\ tasks[t].returns = <<>>
                    /\ tasks[t].at = "done" => (tasks[t].thrown /\ tasks[t].disconnects = 1)
                    /\ tasks[t].thrown => tasks[t].disconnects = 1

\* The read of the stop times of a findRoutes call and the read of the transfers of a
\* findPath request have failed: the call has thrown after disconnecting, the request
\* has been answered 500.
C16_Witness ==
    /\ tasks[1].kind = "findRoutes"
    /\ tasks[1].at = "done"
    /\ tasks[1].thrown
    /\ tasks[1].disconnects = 1
    /\ Len(reads[1]) = 3
    /\ reads[1][3].failed
    /\ tasks[2].kind = "findPath"
    /\ tasks[2].at = "done"
    /\ Len(reads[2]) = 3
    /\ reads[2][3].failed
    /\ tasks[2].responses = <<Response(500, "Internal server error", <<>>)>>

\* The fields of an instance on which the first n ingestion calls have run alone on
\* the snapshot.
IngestedAlone(n) ==
    LET s1 == [NewInstance EXCEPT !.stationNames = StopsIngested(@, db.stops)]
        s2 == StopTimesIngested(s1, db.stopTimes)
        s3 == TransfersIngested(s2, db.transfers)
    IN  IF n = 0 THEN NewInstance ELSE IF n = 1 THEN s1 ELSE IF n = 2 THEN s2 ELSE s3

\* The response of the handler to the query when it runs alone on the snapshot and
\* its reads succeed.
AnsweredAlone(query) ==
    IF FalsyParam(query.from) \/ FalsyParam(query.to)
    THEN Response(400, "Both required", <<>>)
    ELSE Answer(IngestedAlone(3), query.from[1], query.to[1], MaxPathsOf(query.maxPaths))

\* C17: for every interleaving of two concurrent findPath requests at their awaits,
\* each request builds and searches its own TransitRouteFinder instance, no
\* adjacency, line, travel-time or transfer map is read or written by both, and each
\* response equals the response the request would get when run alone on the same
\* snapshot.
C17_RequestsIsolated ==
    \A t \in DOMAIN tasks :
        tasks[t].kind = "findPath" =>
            /\ \A u \in DOMAIN tasks :
                  (u # t /\ tasks[t].routeFinder # 0)
                      => tasks[u].routeFinder # tasks[t].routeFinder
            /\ tasks[t].routeFinder # 0 =>
                  LET mine == heap[tasks[t].routeFinder]
                      n == Min(Len(mine.done), 3)
                  IN  /\ \A k \in 1..Len(mine.done) : mine.done[k].by = t
                      /\ [mine EXCEPT !.done = <<>>] = IngestedAlone(n)
            /\ (tasks[t].at = "done" /\ ~tasks[t].failed)
                  => tasks[t].responses = <<AnsweredAlone(tasks[t].query)>>

\* The second request created its route finder first and is still waiting for its
\* stop times when the first request, which started later, has been answered 200; the
\* two requests ask for different pairs of stops.
C17_Witness ==
    /\ tasks[1].kind = "findPath"
    /\ tasks[2].kind = "findPath"
    /\ tasks[2].routeFinder = 1
    /\ tasks[2].at = "stopTimes"
    /\ tasks[1].routeFinder = 2
    /\ tasks[1].at = "done"
    /\ tasks[1].query # tasks[2].query
    /\ Len(tasks[1].responses) = 1
    /\ tasks[1].responses[1].status = 200

\* Every travel time and every transfer time of the instance is a number >= 0.
NonNegativeTimes(fd) ==
    /\ \A k \in 1..Len(fd.directLines) :
          \A key \in DOMAIN fd.directLines[k].travelTimes :
              fd.directLines[k].travelTimes[key] >= 0
    /\ \A key \in DOMAIN fd.transferOptions : fd.transferOptions[key] >= 0

\* The total times of the paths to end that go on from candidate c: c is extended
\* along every connection, as the loop body extends it, until it stands at end.
RECURSIVE TotalsThrough(_, _, _)
TotalsThrough(fd, c, end) ==
    IF c.stop = end THEN {c.time}
    ELSE UNION {TotalsThrough(fd, n, end) :
                   n \in Range(ExpandConnections(fd, c, Conns(fd.stopConnections, c.stop)))}

\* The events of the iterations of one search, in order.
RECURSIVE SearchEvents(_, _, _)
SearchEvents(fd, s, end) ==
    IF s.queue = <<>> THEN <<>>
    ELSE LET n == SearchIteration(fd, s, end)
         IN  <<n.event>> \o SearchEvents(fd, [queue |-> n.queue, visited |-> n.visited,
                                              bestPath |-> n.bestPath], end)

\* The instance a snapshot's stop times and transfers build.
Built(snapshot) ==
    TransfersIngested(StopTimesIngested(NewInstance, snapshot.stopTimes), snapshot.transfers)

\* In the search from a to b on the instance, a candidate is pruned after the first
\* result is recorded, a path through the candidate is shorter than that result, and
\* the search returns that result.
PruningLosesOptimum(fd, a, b) ==
    /\ HasKey(fd.stopConnections, a)
    /\ LET es == SearchEvents(fd, [queue |-> <<StartCandidate(a)>>, visited |-> {},
                                   bestPath |-> <<>>], b)
       IN  \E i, j \in 1..Len(es) :
              /\ i < j
              /\ es[i].kind = "recorded"
              /\ \A h \in 1..(i - 1) : es[h].kind # "recorded"
              /\ es[j].kind = "pruned"
              /\ \E t \in TotalsThrough(fd, es[j].candidate, b) : t < es[i].candidate.time
              /\ findShortestPath(fd, a, b) = <<PathResultOf(es[i].candidate)>>

\* C18 as stated: there is a graph with non-negative edge times in which a path to the
\* destination with smaller total time than the first recorded result exists, its
\* candidate is dequeued after that result is recorded and is discarded by the 1.5x
\* pruning bound, and findShortestPath returns the longer, earlier-found path.
\* The graphs looked at are the snapshot at hand and every snapshot of the pools.
C18_PruningLosesOptimum ==
    \E g \in {db} \cup WeightedSnapshots \cup GraphSnapshots :
        /\ NonNegativeTimes(Built(g))
        /\ \E a, b \in StopIds : a # b /\ PruningLosesOptimum(Built(g), a, b)

\* C18: with non-negative edge times, a candidate that is dequeued after a result is
\* recorded and is discarded by the 1.5x pruning bound has no path to the destination
\* through it with a total time as small as the recorded result's; the search never
\* returns an earlier-found path that is longer than a path through a candidate the
\* bound discarded.
C18_PrunedNeverShorter ==
    /\ (fp = "search" /\ event # <<>> /\ event[1].kind = "pruned" /\ NonNegativeTimes(Finder))
          => /\ bestPath # <<>>
             /\ \A t \in TotalsThrough(Finder, event[1].candidate, request.destStopIds[di]) :
                   t > bestPath[1].totalTime
    /\ (Ingested /\ NonNegativeTimes(Finder))
          => \A a, b \in StopIds : a # b => ~PruningLosesOptimum(Finder, a, b)

\* A candidate from which the destination is one connection away has been pruned, the
\* recorded result being the direct trip.
C18_Witness ==
    /\ fp = "search"
    /\ event # <<>>
    /\ event[1].kind = "pruned"
    /\ NonNegativeTimes(Finder)
    /\ bestPath # <<>>
    /\ Len(bestPath[1].path) = 2
    /\ TotalsThrough(Finder, event[1].candidate, request.destStopIds[di]) # {}

\* C19: within one findShortestPath run, once a result has been recorded the pruning
\* bound (1.5 times the recorded total time) never increases: every result recorded
\* later has a total time no greater than the one it replaces, and a dequeued candidate
\* whose accumulated time exceeds the current bound is dropped without being expanded
\* or recorded.
C19_BoundNeverIncreases ==
    [][(fp = "search" /\ fp' = "search" /\ queue # <<>>)
          => /\ (bestPath # <<>> /\ bestPath' # <<>>)
                   => bestPath'[1].totalTime <= bestPath[1].totalTime
             /\ (bestPath # <<>> /\ 2 * Head(queue).time > 3 * bestPath[1].totalTime)
                   => /\ queue' = Tail(queue)
                      /\ visited' = visited
                      /\ bestPath' = bestPath]_vars

\* The last loop iteration expanded a candidate.
Expanded == fp = "search" /\ event # <<>> /\ event[1].kind = "expanded"

\* The candidates the last iteration pushed: those of the queue whose path is the
\* expanded candidate's path and one more stop.
PushedFrom(cur) ==
    {q \in Range(queue) :
        /\ Len(q.path) = Len(cur.path) + 1
        /\ SubSeq(q.path, 1, Len(cur.path)) = cur.path}

\* The edge from a to b is a pure transfer edge: the stops are adjacent on no direct
\* line and the transfer table has the pair.
PureTransferEdge(a, b) == TripOfEdge(a, b) = NULL /\ <<a, b>> \in DOMAIN transferOptions

\* The edge that made q out of cur counted as a transfer.
Counted(cur, q) == q.transfers # cur.transfers \/ q.transferPoints # cur.transferPoints

\* C20: during a search, an edge increments a candidate's transfer counter and appends
\* the current stop to transferPoints only when the candidate's last-used trip id is
\* defined and either the edge is a pure transfer edge or its trip id differs from the
\* last-used one; the first edge of a path and an edge on the same trip id as the
\* previous edge never increment the counter.
C20_CountedOnlyOnTripChange ==
    Expanded =>
        LET cur == event[1].candidate
        IN  \A q \in PushedFrom(cur) :
               /\ Counted(cur, q) =>
                     /\ q.transfers = cur.transfers + 1
                     /\ q.transferPoints = Append(cur.transferPoints, cur.stop)
                     /\ cur.lastTrip # NULL
                     /\ \/ PureTransferEdge(cur.stop, q.stop)
                        \/ TripOfEdge(cur.stop, q.stop) # cur.lastTrip
               /\ Len(cur.path) = 1 => ~Counted(cur, q)
               /\ (TripOfEdge(cur.stop, q.stop) # NULL
                   /\ \/ TripOfEdge(cur.stop, q.stop) = cur.lastTrip
                      \/ /\ Len(cur.path) > 1
                         /\ TripOfEdge(cur.path[Len(cur.path) - 1], cur.stop)
                               = TripOfEdge(cur.stop, q.stop))
                     => ~Counted(cur, q)

\* A candidate that arrived on a trip has been expanded, and of the candidates pushed
\* one goes on along a transfer edge and is counted while another goes on along the
\* same trip and is not.
C20_Witness ==
    /\ Expanded
    /\ LET cur == event[1].candidate
       IN  /\ cur.lastTrip # NULL
           /\ \E q \in PushedFrom(cur) :
                 /\ PureTransferEdge(cur.stop, q.stop)
                 /\ q.transfers = cur.transfers + 1
                 /\ q.transferPoints = Append(cur.transferPoints, cur.stop)
           /\ \E q \in PushedFrom(cur) :
                 /\ TripOfEdge(cur.stop, q.stop) = cur.lastTrip
                 /\ ~Counted(cur, q)

\* The events of the run of findShortestPath(a, b) on the instance, a being a key of
\* the adjacency index.
RunEvents(fd, a, b) ==
    SearchEvents(fd, [queue |-> <<StartCandidate(a)>>, visited |-> {}, bestPath |-> <<>>], b)

\* The events before the i-th at the stop of the i-th.
EarlierAtStop(es, i) == {h \in 1..(i - 1) : es[h].candidate.stop = es[i].candidate.stop}

\* The events after the i-th at the stop of the i-th.
LaterAtStop(es, i) == {j \in (i + 1)..Len(es) : es[j].candidate.stop = es[i].candidate.stop}

\* Every candidate at a stop that is dequeued after the one expanded there is dropped.
ExpandedOnce(es) ==
    \A i \in 1..Len(es) :
        es[i].kind = "expanded"
            => \A j \in LaterAtStop(es, i) : es[j].kind \in {"skipped", "pruned"}

SearchedPairs == {p \in StopIds \X StopIds : p[1] # p[2] /\ HasKey(stopConnections, p[1])}

\* C21 as stated: in one findShortestPath run, the first time a stop other than end is
\* dequeued it is marked visited, and it is expanded at most once in the whole run:
\* every later candidate at that stop is dropped without expansion even when its
\* accumulated time is smaller than that of the candidate that was expanded.
C21_FirstDequeueMarksVisited ==
    Ingested =>
        \A p \in SearchedPairs :
            LET es == RunEvents(Finder, p[1], p[2])
            IN  /\ \A i \in 1..Len(es) :
                      (es[i].candidate.stop # p[2] /\ EarlierAtStop(es, i) = {})
                          => es[i].kind = "expanded"
                /\ ExpandedOnce(es)

\* C21: in one findShortestPath run, the first time a stop other than end is dequeued
\* with a candidate that the pruning bound does not discard, it is marked visited and
\* expanded; it is expanded at most once in the whole run: every later candidate at
\* that stop is dropped without expansion even when its accumulated time is smaller
\* than that of the candidate that was expanded.
C21_VisitedOnce ==
    /\ Ingested =>
          \A p \in SearchedPairs :
              LET es == RunEvents(Finder, p[1], p[2])
              IN  /\ \A i \in 1..Len(es) :
                        (/\ es[i].candidate.stop # p[2]
                         /\ es[i].kind # "pruned"
                         /\ \A h \in EarlierAtStop(es, i) : es[h].kind = "pruned")
                            => es[i].kind = "expanded"
                  /\ ExpandedOnce(es)
    /\ (fp = "search" /\ event # <<>> /\ event[1].kind \in {"expanded", "skipped"})
          => event[1].candidate.stop \in visited
    /\ (fp = "search" /\ event # <<>>)
          => event[1] \in Range(RunEvents(Finder, request.originStopIds[oi],
                                          request.destStopIds[di]))

\* A candidate has been skipped at a stop that was expanded earlier in the run with a
\* greater accumulated time.
C21_Witness ==
    /\ fp = "search"
    /\ event # <<>>
    /\ event[1].kind = "skipped"
    /\ LET es == RunEvents(Finder, request.originStopIds[oi], request.destStopIds[di])
       IN  \E i \in 1..Len(es) :
              /\ es[i].kind = "expanded"
              /\ es[i].candidate.stop = event[1].candidate.stop
              /\ es[i].candidate.time > event[1].candidate.time

\* The path goes from a to b along edges of the adjacency index and has no stop twice.
SimplePathFromTo(path, a, b) ==
    /\ path # <<>>
    /\ Head(path) = a
    /\ Last(path) = b
    /\ IsInjective(path)
    /\ \A k \in 1..(Len(path) - 1) : <<path[k], path[k + 1]>> \in Edges(stopConnections)

\* C22: every candidate queued by findShortestPath, and so every returned path,
\* contains no stop twice; a returned path begins with start, ends with end, and each
\* consecutive pair of its stops is an edge of the adjacency index.
C22_SimplePaths ==
    /\ fp = "search" =>
          /\ \A k \in 1..Len(queue) :
                SimplePathFromTo(queue[k].path, request.originStopIds[oi], queue[k].stop)
          /\ bestPath # <<>> =>
                SimplePathFromTo(bestPath[1].path, request.originStopIds[oi],
                                 request.destStopIds[di])
    /\ \A k \in 1..Len(searched) :
          searched[k].result # <<>> =>
              SimplePathFromTo(searched[k].result[1].path, searched[k].origin, searched[k].dest)
    /\ fp = "done" =>
          \A k \in 1..Len(returned) :
              \E i \in 1..Len(request.originStopIds), j \in 1..Len(request.destStopIds) :
                  SimplePathFromTo(returned[k].path, request.originStopIds[i],
                                   request.destStopIds[j])

\* A candidate of three stops has been expanded at a stop with a connection back into
\* its own path, and a candidate pushed from it is in the queue.
C22_Witness ==
    /\ Expanded
    /\ Len(event[1].candidate.path) = 3
    /\ \E n \in Range(Conns(stopConnections, event[1].candidate.stop)) :
          n \in Range(event[1].candidate.path)
    /\ PushedFrom(event[1].candidate) # {}

\* The ingestion calls of the script have all returned.
IngestionOver == pc = Len(script) /\ fp = "idle"

\* The script calls each ingestion method once.
EachOnce == Len(script) = 4 /\ \A md \in IngestionMethods : md \in Range(script)

\* processStopTimes is called before processTransfers.
StopTimesFirst == IndexOf(script, "processStopTimes") < IndexOf(script, "processTransfers")

GraphOf(fd) ==
    [stopsByLine |-> fd.stopsByLine, stopConnections |-> fd.stopConnections,
     transferOptions |-> fd.transferOptions, stopTimesMap |-> fd.stopTimesMap,
     directLines |-> fd.directLines]

\* The stops of the stop-time rows, and the stops that the transfer rows make keys of
\* the adjacency index.
StopTimeStops == {db.stopTimes[k].stop_id : k \in 1..Len(db.stopTimes)}

TransferFromStops == {db.transfers[k].from_stop_id : k \in 1..Len(db.transfers)}

\* Two different stops of one base station, known to the instance, one of them from
\* stop times only.
VariantsFromStopTimes ==
    {p \in (StopTimeStops \cup TransferFromStops) \X (StopTimeStops \cup TransferFromStops) :
        /\ p[1] # p[2]
        /\ getBaseStationId(p[1]) = getBaseStationId(p[2])
        /\ \E x \in {p[1], p[2]} : x \notin TransferFromStops}

\* The 2-minute variant edge from a to b is in the transfer table and the adjacency
\* index.
VariantEdge(a, b) ==
    /\ <<a, b>> \in DOMAIN transferOptions
    /\ transferOptions[<<a, b>>] = VariantTransferMinutes
    /\ <<a, b>> \in Edges(stopConnections)

\* C23: over every order in which the three ingestion steps can run on a fresh
\* instance, the final adjacency index and transfer table contain the 2-minute variant
\* edges between same-base stops that are known only from stop times exactly when
\* processStopTimes completed before processTransfers; the position of processStops in
\* the order does not change the graph.
C23_VariantsNeedStopTimesFirst ==
    (IngestionOver /\ EachOnce) =>
        /\ \A p \in VariantsFromStopTimes : VariantEdge(p[1], p[2]) <=> StopTimesFirst
        /\ GraphOf(Finder) =
              GraphOf(IF StopTimesFirst
                      THEN TransfersIngested(StopTimesIngested(NewInstance, db.stopTimes),
                                             db.transfers)
                      ELSE StopTimesIngested(TransfersIngested(NewInstance, db.transfers),
                                             db.stopTimes))

\* processTransfers ran first, then processStops, then processStopTimes, on a trip to
\* 1N and a transfer row from 1S: the variant edges between 1N and 1S are missing.
C23_Witness ==
    /\ IngestionOver
    /\ script = <<"processTransfers", "processStops", "processStopTimes", "findPaths">>
    /\ <<<<"1", "N">>, <<"1", "S">>>> \in VariantsFromStopTimes
    /\ <<"1", "S">> \in TransferFromStops
    /\ ~VariantEdge(<<"1", "N">>, <<"1", "S">>)
    /\ ~VariantEdge(<<"1", "S">>, <<"1", "N">>)

\* The three steps ran in the contract's order on a trip between 1N and 1S: both
\* variant edges are there.
C23_WitnessInOrder ==
    /\ IngestionOver
    /\ script = FindRoutesScript
    /\ VariantsFromStopTimes # {}
    /\ \A p \in VariantsFromStopTimes : VariantEdge(p[1], p[2])

\* The stops a and b stand next to each other somewhere in the line's stop sequence.
NextToOnLine(line, a, b) ==
    \E i, j \in 1..Len(line.stops) :
        line.stops[i] = a /\ line.stops[j] = b /\ Abs(i - j) = 1

\* The first direct line, in ingestion order, on which a and b stand next to each
\* other; 0 when there is none.
FirstLineWith(a, b) ==
    IF \E k \in 1..Len(directLines) : NextToOnLine(directLines[k], a, b)
    THEN CHOOSE k \in 1..Len(directLines) :
            /\ NextToOnLine(directLines[k], a, b)
            /\ \A l \in 1..(k - 1) : ~NextToOnLine(directLines[l], a, b)
    ELSE 0

\* The travel time the line stores for the pair, in either direction; 3 when none.
StoredTime(line, a, b) ==
    IF PairKey(a, b) \in DOMAIN line.travelTimes THEN line.travelTimes[PairKey(a, b)]
    ELSE IF PairKey(b, a) \in DOMAIN line.travelTimes THEN line.travelTimes[PairKey(b, a)]
    ELSE DefaultLineMinutes

\* The connections of the expanded candidate's stop that are not on its path.
OpenConnections(cur) ==
    {n \in Range(Conns(stopConnections, cur.stop)) : n \notin Range(cur.path)}

\* C24: for each adjacency edge (cur,next) expanded by the search: if some DirectLine
\* has cur and next at index distance exactly 1, the edge is costed with the stored
\* travel time of the first such line in ingestion order (3 minutes if no time is
\* stored for the pair) and that line's trip id becomes the last-used trip, even when
\* the transfer table holds a different time for (cur,next); otherwise the edge costs
\* the transfer-table time of (cur,next), and it is skipped when no such entry exists.
C24_EdgeCost ==
    Expanded =>
        LET cur == event[1].candidate
        IN  \A n \in OpenConnections(cur) :
               LET k == FirstLineWith(cur.stop, n)
                   pushed == {q \in PushedFrom(cur) : q.stop = n}
               IN  IF k # 0
                   THEN \E q \in pushed :
                           /\ q.time = cur.time + StoredTime(directLines[k], cur.stop, n)
                           /\ q.lastTrip = directLines[k].trip_id
                   ELSE IF <<cur.stop, n>> \in DOMAIN transferOptions
                   THEN \E q \in pushed : q.time = cur.time + transferOptions[<<cur.stop, n>>]
                   ELSE pushed = {}

\* C25: processStops changes only the id-to-name index and leaves the adjacency index,
\* the direct lines, the travel-time table and the transfer table unchanged;
\* processStopTimes and processTransfers only add to the adjacency index and never
\* remove a stop or an edge from it, under any sequence of calls on one instance.
C25_IngestionFrame ==
    [][(pc <= Len(script) /\ pc' = pc + 1)
          => /\ script[pc] = "processStops"
                   => /\ stopConnections' = stopConnections
                      /\ directLines' = directLines
                      /\ stopTimesMap' = stopTimesMap
                      /\ transferOptions' = transferOptions
                      /\ stopsByLine' = stopsByLine
             /\ script[pc] \in {"processStopTimes", "processTransfers"}
                   => /\ Range(Keys(stopConnections)) \subseteq Range(Keys(stopConnections'))
                      /\ Edges(stopConnections) \subseteq Edges(stopConnections')]_vars

\* processStopTimes has run a second time, after processTransfers, on an instance
\* that holds a transfer edge.
C25_Witness ==
    /\ IngestionOver
    /\ script = <<"processStopTimes", "processTransfers", "processStopTimes", "findPaths">>
    /\ Len(directLines) = 2
    /\ \E e \in DOMAIN transferOptions :
          /\ e \in Edges(stopConnections)
          /\ e[1] \notin StopTimeStops

\* The cost the edge classification assigns to the pair: the travel time of the first
\* line on which the search finds the stops adjacent, else the transfer time.
EdgeCost(a, b) ==
    LET c == ClassifyOnLines(directLines, a, b)
    IN  IF c.tripId # NULL THEN c.transferTime ELSE transferOptions[<<a, b>>]

\* The sum of the edge costs along the first k stops of the path, added as the search
\* adds them, from 0.
RECURSIVE CostAlong(_, _)
CostAlong(path, k) ==
    IF k <= 1 THEN 0 ELSE JsAdd(CostAlong(path, k - 1), EdgeCost(path[k - 1], path[k]))

\* C26: the totalTime of every PathResult equals the sum, over the consecutive stop
\* pairs of its path, of the cost the edge classification assigns to that pair (line
\* travel time or transfer time); nothing else is added to or subtracted from the
\* accumulated time.
C26_TotalTimeIsSumOfEdgeCosts ==
    /\ (fp = "search" /\ bestPath # <<>>)
          => bestPath[1].totalTime = CostAlong(bestPath[1].path, Len(bestPath[1].path))
    /\ fp = "search" =>
          \A k \in 1..Len(queue) : queue[k].time = CostAlong(queue[k].path, Len(queue[k].path))
    /\ \A k \in 1..Len(searched) :
          searched[k].result # <<>> =>
              searched[k].result[1].totalTime
                  = CostAlong(searched[k].result[1].path, Len(searched[k].result[1].path))
    /\ fp = "done" =>
          \A k \in 1..Len(returned) :
              returned[k].totalTime = CostAlong(returned[k].path, Len(returned[k].path))

\* findPaths has returned a path of three stops made of an edge of a trip and a
\* transfer edge, with a total time that is the sum of two non-zero costs.
C26_Witness ==
    /\ fp = "done"
    /\ \E k \in 1..Len(returned) :
          LET path == returned[k].path
          IN  /\ Len(path) = 3
              /\ \E i \in 1..2 : TripOfEdge(path[i], path[i + 1]) # NULL
              /\ \E i \in 1..2 : PureTransferEdge(path[i], path[i + 1])
              /\ EdgeCost(path[1], path[2]) > 0
              /\ EdgeCost(path[2], path[3]) > 0
              /\ returned[k].totalTime = EdgeCost(path[1], path[2]) + EdgeCost(path[2], path[3])

\* The next-stop edges processStopTimes adds for the trips of the snapshot: the pairs
\* of stops with consecutive sequence numbers on one trip.
StopTimeEdges ==
    {<<p[1].stop_id, p[2].stop_id>> :
        p \in {p \in Range(db.stopTimes) \X Range(db.stopTimes) :
                  /\ p[1].trip_id = p[2].trip_id
                  /\ p[2].stop_sequence = p[1].stop_sequence + 1}}

\* C27: if end is reachable from start along edges of the adjacency index built by
\* processStopTimes and processTransfers, findShortestPath(start,end) returns a path:
\* every next-stop edge that processStopTimes added for a trip, including one of a
\* trip that visits the same stop more than once, can be traversed by the search.
C27_ReachableGivesPath ==
    /\ \A k \in 1..Len(searched) :
          (SearchOver(k) /\ Reachable(searched[k].origin, searched[k].dest))
              => searched[k].result # <<>>
    /\ Ingested =>
          \A a, b \in StopIds :
              (a # b /\ Reachable(a, b)) => findShortestPath(Finder, a, b) # <<>>
    /\ Expanded =>
          \A n \in OpenConnections(event[1].candidate) :
              <<event[1].candidate.stop, n>> \in StopTimeEdges
                  => \E q \in PushedFrom(event[1].candidate) : q.stop = n

\* The stops of the adjacency index: its keys and the stops its keys connect to.
StopsOfIndex ==
    Range(Keys(stopConnections)) \cup {e[2] : e \in Edges(stopConnections)}

\* The number of iterations that expanded a stop, and the number of candidates queued
\* in the run: each queued candidate is dequeued by one iteration.
Expansions(es) == Cardinality({i \in 1..Len(es) : es[i].kind = "expanded"})

\* The run of findShortestPath(a, b) keeps to the bounds.
RunBounded(a, b) ==
    LET es == RunEvents(Finder, a, b)
    IN  /\ Expansions(es) <= Cardinality(StopsOfIndex)
        /\ Len(es) <= 1 + Cardinality(Edges(stopConnections))

SearchBounded ==
    /\ Ingested => \A p \in SearchedPairs : RunBounded(p[1], p[2])
    /\ fp = "search" =>
          /\ RunBounded(request.originStopIds[oi], request.destStopIds[di])
          /\ event # <<>> =>
                event[1] \in Range(RunEvents(Finder, request.originStopIds[oi],
                                             request.destStopIds[di]))
          /\ visited \subseteq StopsOfIndex
          /\ Len(queue) <= 1 + Cardinality(Edges(stopConnections))

\* C28: for every finite graph and every start and end, findShortestPath terminates:
\* the queue eventually empties, the number of stop expansions is at most the number
\* of stops in the adjacency index, and the number of candidates ever queued is at most
\* 1 plus the number of adjacency edges.
C28_SearchTerminates ==
    /\ []SearchBounded
    /\ [](fp = "search" => <>(fp = "search" /\ queue = <<>>))

\* The queue has emptied after a run on a graph with a cycle that expanded every stop
\* of the index and dropped a candidate.
C28_Witness ==
    /\ fp = "search"
    /\ queue = <<>>
    /\ \E e \in Edges(stopConnections) : <<e[2], e[1]>> \in Edges(stopConnections)
    /\ LET es == RunEvents(Finder, request.originStopIds[oi], request.destStopIds[di])
       IN  /\ Expansions(es) = Cardinality(StopsOfIndex)
           /\ Len(es) > Expansions(es)

(***************************************************************************)
(* The auth controller (src/src/controllers/auth.controller.ts)            *)
(* register, renewAccessToken and logout run as asynchronous handlers on   *)
(* the one module-level PrismaClient; each suspends at its awaits, where   *)
(* the other handler may run.  The User table is a sequence of rows with   *)
(* a unique email; a nullable column holds <<>> (null) or <<value>>.       *)
(***************************************************************************)
\* The clock advances to at most MaxNow seconds; no token issued in the model expires
\* within that time.
MaxNow == 1

\* jwt.sign({ id: userId }, REFRESH_TOKEN_SECRET, { expiresIn }) at second iat
\* (token.utils lines 20-26): the token is a function of the payload, the secret and
\* the second of issue.
Token(id, iat) == [id |-> id, iat |-> iat, signed |-> TRUE]

\* A string that is not a token signed with the refresh secret.
Garbage == [id |-> 0, iat |-> 0, signed |-> FALSE]

\* generateTokens, token.utils lines 9-29.
generateTokens(userId, at) == [accessToken |-> Token(userId, at), refreshToken |-> Token(userId, at)]

\* verifyRefreshToken, token.utils lines 43-50.
verifyRefreshToken(token) ==
    IF token.signed
    THEN [valid |-> TRUE, expired |-> FALSE, id |-> token.id]
    ELSE [valid |-> FALSE, expired |-> TRUE, id |-> 0]

\* A row of the User table (prisma/schema.prisma, model User).
User(id, email, refreshToken) == [id |-> id, email |-> email, refreshToken |-> refreshToken]

\* db.user.findUnique({ where: { email } }): <<>> (null) or <<row>>.
findUniqueByEmail(us, email) == SelectSeq(us, LAMBDA u : u.email = email)

\* db.user.findFirst({ where: { id, refreshToken: token } }), lines 176-181.
findFirstByIdAndToken(us, id, token) ==
    LET found == SelectSeq(us, LAMBDA u : u.id = id /\ u.refreshToken = <<token>>)
    IN  IF found = <<>> THEN <<>> ELSE <<found[1]>>

\* db.user.findFirst({ where: { refreshToken: token } }), lines 231-233.
findFirstByToken(us, token) ==
    LET found == SelectSeq(us, LAMBDA u : u.refreshToken = <<token>>)
    IN  IF found = <<>> THEN <<>> ELSE <<found[1]>>

\* db.user.update({ where: { id }, data: { refreshToken } }).
userUpdated(us, id, refreshToken) ==
    [k \in 1..Len(us) |-> IF us[k].id = id THEN [us[k] EXCEPT !.refreshToken = refreshToken]
                          ELSE us[k]]

\* db.user.create, lines 29-43: the new row has a fresh id and no refresh token.
userCreated(us, email) == Append(us, User(Len(us) + 1, email, <<>>))

\* One execution of a handler: the request (kind, token from the cookie or the body,
\* email), the handler's position and locals, what it did to res, and the calls it
\* awaited.  after records the order of arrival: the request was received when a
\* renewal or a logout of the same token had already answered 200.
AuthTask(kind, token, email) ==
    [kind |-> kind, token |-> token, email |-> email, at |-> "new",
     user |-> 0, existingUser |-> <<>>, newToken |-> <<>>,
     responses |-> <<>>, cookies |-> <<>>, awaited |-> <<>>, thrown |-> FALSE,
     after |-> FALSE]

\* res.status(status).json(body) on the task's response: the first call sends the
\* response; a call after the response was sent throws (headers already sent).
Send(task, status, message) ==
    IF task.responses = <<>>
    THEN [task EXCEPT !.responses = <<Response(status, message, <<>>)>>]
    ELSE [task EXCEPT !.thrown = TRUE]

Succeeded(task) == task.responses # <<>> /\ task.responses[1].status = 200

\* A renewal or a logout of this token has answered 200.
Redeemed(ts, t) ==
    \E u \in Tasks \ {t} :
        /\ ts[u].kind \in {"renewAccessToken", "logout"}
        /\ ts[u].token = ts[t].token
        /\ Succeeded(ts[u])

\* renewAccessToken lines 158-181: the token is read and verified and findFirst is
\* called.
renewAccessTokenEntry(t) ==
    /\ tasks[t].kind = "renewAccessToken"
    /\ tasks[t].at = "new"
    /\ LET task == [tasks[t] EXCEPT !.after = Redeemed(tasks, t)]
       IN  tasks' = [tasks EXCEPT ![t] =
              IF task.token = <<>>
              THEN [Send(task, 404, "Refresh token not found") EXCEPT !.at = "done"]
              ELSE IF ~verifyRefreshToken(task.token[1]).valid
              THEN [Send(task, 401, "Invalid refresh token") EXCEPT !.at = "done"]
              ELSE [task EXCEPT !.at = "find", !.awaited = Append(@, "findFirst")]]
    /\ UNCHANGED <<db, authVars, heap, reads, request, script, pc, finderVars, searchVars, returned>>

\* renewAccessToken lines 176-201: findFirst returns; without a user the answer is 401,
\* otherwise new tokens are generated and update is called.
renewAccessTokenFound(t) ==
    /\ tasks[t].kind = "renewAccessToken"
    /\ tasks[t].at = "find"
    /\ LET task == tasks[t]
           user == findFirstByIdAndToken(users, verifyRefreshToken(task.token[1]).id,
                                         task.token[1])
       IN  tasks' = [tasks EXCEPT ![t] =
              IF user = <<>>
              THEN [Send(task, 401, "Refresh token invalid or expired") EXCEPT !.at = "done"]
              ELSE [task EXCEPT !.at = "update", !.user = user[1].id,
                                !.newToken = <<generateTokens(user[1].id, now).refreshToken>>,
                                !.awaited = Append(@, "update")]]
    /\ UNCHANGED <<db, authVars, heap, reads, request, script, pc, finderVars, searchVars, returned>>

\* renewAccessToken lines 195-211: update stores the new refresh token; the cookie is
\* set and the access token is sent.
renewAccessTokenUpdated(t) ==
    /\ tasks[t].kind = "renewAccessToken"
    /\ tasks[t].at = "update"
    /\ users' = userUpdated(users, tasks[t].user, tasks[t].newToken)
    /\ tasks' = [tasks EXCEPT ![t] =
          [Send([tasks[t] EXCEPT !.cookies = Append(@, tasks[t].newToken)], 200, "")
              EXCEPT !.at = "done"]]
    /\ UNCHANGED <<db, now, heap, reads, request, script, pc, finderVars, searchVars, returned>>

\* logout lines 223-233: the token is read and findFirst is called.
logoutEntry(t) ==
    /\ tasks[t].kind = "logout"
    /\ tasks[t].at = "new"
    /\ LET task == [tasks[t] EXCEPT !.after = Redeemed(tasks, t)]
       IN  tasks' = [tasks EXCEPT ![t] =
              IF task.token = <<>>
              THEN [Send(task, 401, "Refresh token not found") EXCEPT !.at = "done"]
              ELSE [task EXCEPT !.at = "find", !.awaited = Append(@, "findFirst")]]
    /\ UNCHANGED <<db, authVars, heap, reads, request, script, pc, finderVars, searchVars, returned>>

\* logout lines 231-244: findFirst returns; without a user the answer is 401, otherwise
\* update is called.
logoutFound(t) ==
    /\ tasks[t].kind = "logout"
    /\ tasks[t].at = "find"
    /\ LET task == tasks[t]
           user == findFirstByToken(users, task.token[1])
       IN  tasks' = [tasks EXCEPT ![t] =
              IF user = <<>>
              THEN [Send(task, 401, "User not found") EXCEPT !.at = "done"]
              ELSE [task EXCEPT !.at = "update", !.user = user[1].id,
                                !.awaited = Append(@, "update")]]
    /\ UNCHANGED <<db, authVars, heap, reads, request, script, pc, finderVars, searchVars, returned>>

\* logout lines 241-248: update clears the refresh token; the cookie is cleared and
\* 200 is sent.
logoutUpdated(t) ==
    /\ tasks[t].kind = "logout"
    /\ tasks[t].at = "update"
    /\ users' = userUpdated(users, tasks[t].user, <<>>)
    /\ tasks' = [tasks EXCEPT ![t] =
          [Send([tasks[t] EXCEPT !.cookies = Append(@, <<>>)], 200, "Logout successful")
              EXCEPT !.at = "done"]]
    /\ UNCHANGED <<db, now, heap, reads, request, script, pc, finderVars, searchVars, returned>>

\* register lines 13-19: findUnique is called with the email of the body.
registerEntry(t) ==
    /\ tasks[t].kind = "register"
    /\ tasks[t].at = "new"
    /\ tasks' = [tasks EXCEPT ![t].at = "find", ![t].awaited = Append(@, "findUnique")]
    /\ UNCHANGED <<db, authVars, heap, reads, request, script, pc, finderVars, searchVars, returned>>

\* register lines 17-26: findUnique returns; if a user exists 400 is sent (line 22),
\* and in either case bcrypt.hash is called next (line 26).
registerFound(t) ==
    /\ tasks[t].kind = "register"
    /\ tasks[t].at = "find"
    /\ LET existingUser == findUniqueByEmail(users, tasks[t].email)
           task == [tasks[t] EXCEPT !.existingUser = existingUser]
       IN  tasks' = [tasks EXCEPT ![t] =
              [(IF existingUser # <<>> THEN Send(task, 400, "User already exists") ELSE task)
                  EXCEPT !.at = "hash", !.awaited = Append(@, "hash")]]
    /\ UNCHANGED <<db, authVars, heap, reads, request, script, pc, finderVars, searchVars, returned>>

\* register lines 26-43: the hash returns and db.user.create is called.
registerHashed(t) ==
    /\ tasks[t].kind = "register"
    /\ tasks[t].at = "hash"
    /\ tasks' = [tasks EXCEPT ![t].at = "create", ![t].awaited = Append(@, "create")]
    /\ UNCHANGED <<db, authVars, heap, reads, request, script, pc, finderVars, searchVars, returned>>

\* register lines 29-52 and 75-77: create inserts the row, the tokens are generated and
\* update is called; on an email that is taken (email is @unique) create rejects and
\* the catch block calls res.status(500).json.
registerCreated(t) ==
    /\ tasks[t].kind = "register"
    /\ tasks[t].at = "create"
    /\ IF findUniqueByEmail(users, tasks[t].email) # <<>>
       THEN /\ tasks' = [tasks EXCEPT ![t] =
                   [Send(tasks[t], 500, "User registration failed") EXCEPT !.at = "done"]]
            /\ UNCHANGED users
       ELSE LET created == userCreated(users, tasks[t].email)
                id == created[Len(created)].id
            IN  /\ users' = created
                /\ tasks' = [tasks EXCEPT ![t].at = "update", ![t].user = id,
                                          ![t].newToken = <<generateTokens(id, now).refreshToken>>,
                                          ![t].awaited = Append(@, "update")]
    /\ UNCHANGED <<db, now, heap, reads, request, script, pc, finderVars, searchVars, returned>>

\* register lines 49-74: update stores the refresh token; the cookie is set and 200 is
\* sent.
registerUpdated(t) ==
    /\ tasks[t].kind = "register"
    /\ tasks[t].at = "update"
    /\ users' = userUpdated(users, tasks[t].user, tasks[t].newToken)
    /\ tasks' = [tasks EXCEPT ![t] =
          [Send([tasks[t] EXCEPT !.cookies = Append(@, tasks[t].newToken)], 200,
                "User registered successfully") EXCEPT !.at = "done"]]
    /\ UNCHANGED <<db, now, heap, reads, request, script, pc, finderVars, searchVars, returned>>

\* A second passes.
tick ==
    /\ now < MaxNow
    /\ now' = now + 1
    /\ UNCHANGED <<db, users, serverVars, request, script, pc, finderVars, searchVars, returned>>

\* The requests: the refresh token user 1 holds, none, or a string that is no token;
\* the email of user 1 or a new one.
AuthTasks ==
    {AuthTask("renewAccessToken", token, "") : token \in {<<Token(1, 0)>>, <<>>, <<Garbage>>}}
    \cup {AuthTask("logout", token, "") : token \in {<<Token(1, 0)>>, <<>>}}
    \cup {AuthTask("register", <<>>, email) : email \in {"a@duck", "b@duck"}}

\* User 1 logged in at second 0 and holds the refresh token issued then; two requests
\* have arrived.
InitAuth ==
    /\ db = [stops |-> AllStopRows, stopTimes |-> <<>>, transfers |-> <<>>]
    /\ request = NoRequest
    /\ FreshFinder(<<>>)
    /\ \E first \in AuthTasks, second \in AuthTasks : tasks = <<first, second>>
    /\ heap = <<>>
    /\ reads = <<>>
    /\ users = <<User(1, "a@duck", <<Token(1, 0)>>)>>
    /\ now = 0

NextAuth ==
    \/ \E t \in Tasks :
        \/ renewAccessTokenEntry(t)
        \/ renewAccessTokenFound(t)
        \/ renewAccessTokenUpdated(t)
        \/ logoutEntry(t)
        \/ logoutFound(t)
        \/ logoutUpdated(t)
        \/ registerEntry(t)
        \/ registerFound(t)
        \/ registerHashed(t)
        \/ registerCreated(t)
        \/ registerUpdated(t)
    \/ tick

SpecAuth == InitAuth /\ [][NextAuth]_vars

RenewalsOf(token) ==
    {t \in Tasks : tasks[t].kind = "renewAccessToken" /\ tasks[t].token = <<token>>}

\* C29: a refresh token is redeemable at most once: of the renewAccessToken requests
\* that present the same refresh token, in every order and interleaving, at most one
\* succeeds, and a renewal requested after a successful renewal or logout of the token
\* is rejected with 401.
C29_RedeemedAtMostOnce ==
    /\ \A t \in Tasks, u \in Tasks :
          (t # u /\ tasks[t].token # <<>> /\ u \in RenewalsOf(tasks[t].token[1])
                 /\ t \in RenewalsOf(tasks[t].token[1]))
              => ~(Succeeded(tasks[t]) /\ Succeeded(tasks[u]))
    /\ \A t \in Tasks :
          (tasks[t].kind = "renewAccessToken" /\ tasks[t].after /\ tasks[t].at = "done")
              => tasks[t].responses[1].status = 401

\* C30: a register request for an email that already belongs to a user gets exactly
\* one response, 400 "User already exists", and the handler then stops: it awaits
\* nothing after findUnique, creates no user, generates no token, sets no cookie and
\* calls res.json no second time.
C30_ExistingEmailStops ==
    \A t \in Tasks :
        (tasks[t].kind = "register" /\ tasks[t].existingUser # <<>>) =>
            /\ tasks[t].at = "done"
            /\ tasks[t].responses = <<Response(400, "User already exists", <<>>)>>
            /\ tasks[t].awaited = <<"findUnique">>
            /\ tasks[t].user = 0
            /\ tasks[t].newToken = <<>>
            /\ tasks[t].cookies = <<>>
            /\ ~tasks[t].thrown

====
